---- MODULE Spec2Model ----
(***************************************************************************)
(* A model of the object tree of sphinx_lua_ls (objtree.py), of the member *)
(* iteration of its autodoc directives (autodoc.py), of the splitting of   *)
(* signatures (utils.py) and of the cache of the tree (__init__.py).       *)
(*                                                                         *)
(* Python values are represented as follows.                               *)
(*   - A str is a sequence of one-character strings: "a.b" is              *)
(*     <<"a", ".", "b">>.  File paths are strs.                            *)
(*   - An optional value (T | None) is a sequence of length at most one:   *)
(*     None is <<>>, a value v is <<v>>.                                   *)
(*   - A docstring is a sequence of lines; a line is a record whose field  *)
(*     k tells how the regular expressions of DocstringMixin classify it.  *)
(*   - An Object (and its subclasses) is a record; the field type is the   *)
(*     name of the Python class.  Its children dict, which keeps insertion *)
(*     order, is a sequence of [name, obj] entries with distinct names.    *)
(*   - A call that may raise returns [raised, obj].                        *)
(***************************************************************************)
EXTENDS Integers, Sequences, FiniteSets, TLC

VARIABLES
    \* Parser under construction (Parser.add)
    root,       \* Parser.root
    raised,     \* an exception left Parser.add: the construction is aborted
    nadds,      \* number of Parser.add calls made
    added,      \* history: the path strings passed to calls of add that returned
    contrib,    \* history: <<path, is_foreign, files>> of every raw definition added
    \* one call of merge_objects on a pair of fresh records
    ma, mb,     \* the arguments
    mab, mba,   \* merge_objects(ma, mb) and merge_objects(mb, ma)
    mpc,        \* "args" before the calls, "done" after
    \* calls of find_all_bases on the tree under root
    fbCache,    \* root._bases_cache: the cached result of every class asked for
    fbObj,      \* the argument obj of the last call (a record is named by its path)
    fbStack,    \* the local stack of the running call
    fbSeen,     \* the local seen_bases of the running call
    fbRes,      \* the local res of the running call
    fbRet,      \* the list the last call returned; None while a call runs
    fbpc,       \* "idle" between calls, "loop" inside the while loop
    \* successive calls of _iter_children with the same arguments
    itArgs,     \* the arguments: obj, parent, options, include_globals
    itResults,  \* what each call so far has yielded and the candidates it had
    \* one call of a function that has no state of its own
    fnArgs,     \* the arguments
    fnOut,      \* None before the call, the result after it
    \* calls of run_lua_ls between changes of the files of the project
    data,       \* domain.data: None, or objtree, objtree_roots and objtree_paths
    disk,       \* the file system: st_mtime_ns of each file, None if it is absent
    dirs,       \* sorted(domain.config["project_directories"])
    exits,      \* the exit code of the language server on each directory
    invocations, \* the subprocess runs of the last call, by directory
    outcome,    \* how the last call ended; "idle" after a change of the files
    settled     \* whether a call has rebuilt the tree and nothing was changed since

treeVars == <<root, raised, nadds, added, contrib>>
mergeVars == <<ma, mb, mab, mba, mpc>>
basesVars == <<fbCache, fbObj, fbStack, fbSeen, fbRes, fbRet, fbpc>>
iterVars == <<itArgs, itResults>>
fnVars == <<fnArgs, fnOut>>
lsVars == <<data, disk, dirs, exits, invocations, outcome, settled>>
vars == <<root, raised, nadds, added, contrib, ma, mb, mab, mba, mpc,
          fbCache, fbObj, fbStack, fbSeen, fbRes, fbRet, fbpc, itArgs, itResults,
          fnArgs, fnOut, data, disk, dirs, exits, invocations, outcome, settled>>

----------------------------------------------------------------------------
(* Bounds of the model *)

\* line numbers of the raw definitions are drawn from 0 .. MaxLine
MaxLine == 1
\* number of Parser.add calls of one construction
MaxAdds == 3
\* length of the bases list of a class
MaxBases == 2
\* number of successive calls of _iter_children
MaxCalls == 2

----------------------------------------------------------------------------
(* Python values *)

None == <<>>
Some(v) == <<v>>
IsNone(o) == o = <<>>
Val(o) == o[1]

\* Python truthiness of an optional str / list: None and the empty value are falsy
Truthy(o) == o # None /\ Val(o) # <<>>

\* x or y, on optional values
PyOr(x, y) == IF Truthy(x) THEN x ELSE y

Range(s) == {s[i] : i \in DOMAIN s}

RECURSIVE SumLen(_)
SumLen(ss) == IF ss = <<>> THEN 0 ELSE Len(Head(ss)) + SumLen(Tail(ss))

----------------------------------------------------------------------------
(* objtree.py: the record model *)

Types == {"Object", "Data", "Table", "Function", "Class", "Alias", "Enum"}

\* Object.priority and the overrides of the subclasses
priority(type) ==
    CASE type \in {"Function", "Class", "Alias", "Enum"} -> 2
      [] type \in {"Data", "Table"} -> 1
      [] OTHER -> 0

\* Object(needs_cleanup=nc): the dataclass defaults.  bases is the field of
\* Class; parsed holds _parsed_docstring, _parsed_options and _parsed_doctype
\* once _parse_docstring has run (None before)
NewObject(type, nc) ==
    [ type |-> type,
      docstring |-> None,
      needs_cleanup |-> nc,
      inferred_options |-> <<>>,
      inferred_doctype |-> None,
      is_deprecated |-> FALSE,
      deprecation_reason |-> None,
      is_nodiscard |-> FALSE,
      nodiscard_reason |-> None,
      is_async |-> FALSE,
      visibility |-> None,
      see |-> <<>>,
      files |-> {},
      docstring_file |-> None,
      is_foreign |-> FALSE,
      line |-> None,
      children |-> <<>>,
      using |-> <<>>,
      is_toplevel |-> FALSE,
      bases |-> <<>>,
      parsed |-> None ]

\* one line of a docstring: k is "text", "doc" (a line "!doc name[: arg]") or
\* "doctype" (a line "!doctype name"); text is the line as written
DocLine(k, text, name, arg) == [k |-> k, text |-> text, name |-> name, arg |-> arg]
TextLine(text) == DocLine("text", text, "", "")

\* len(docstring) of a str docstring: the lines joined by "\n"
DocLen(d) == IF d = <<>> THEN 0 ELSE SumLen([i \in DOMAIN d |-> d[i].text]) + Len(d) - 1

\* truth value of a docstring (str | None): neither None nor ""
DocTruthy(d) == d # None /\ DocLen(Val(d)) > 0

\* children dict
ChildNames(o) == {o.children[i].name : i \in DOMAIN o.children}
HasChild(o, name) == name \in ChildNames(o)
ChildIdx(o, name) == CHOOSE i \in DOMAIN o.children : o.children[i].name = name
GetChild(o, name) == o.children[ChildIdx(o, name)].obj
\* o.children[name] = child: a new key goes last, an old key keeps its place
SetChild(o, name, child) ==
    IF HasChild(o, name)
    THEN [o EXCEPT !.children[ChildIdx(o, name)].obj = child]
    ELSE [o EXCEPT !.children = Append(@, [name |-> name, obj |-> child])]

\* dict.update on option dicts (sequences of [name, value] with distinct names)
OptNames(d) == {d[i].name : i \in DOMAIN d}
RECURSIVE DictUpdate(_, _)
DictUpdate(d, e) ==
    IF e = <<>> THEN d
    ELSE LET h == Head(e)
             d1 == IF h.name \in OptNames(d)
                   THEN [i \in DOMAIN d |-> IF d[i].name = h.name THEN h ELSE d[i]]
                   ELSE Append(d, h)
         IN DictUpdate(d1, Tail(e))

----------------------------------------------------------------------------
(* objtree.py: Parser.merge_objects and Parser.add_child *)

\* the sort key of merge_objects: (-x.is_foreign, -x.priority, x.line)
SortKey(x) == << IF x.is_foreign THEN -1 ELSE 0, -priority(x.type), x.line >>

\* k1 < k2 on sort keys, as Python compares tuples: the first unequal pair of
\* items decides, and None < int (or int < None) raises TypeError
KeyLess(k1, k2) ==
    IF k1[1] # k2[1] THEN (IF k1[1] < k2[1] THEN "lt" ELSE "ge")
    ELSE IF k1[2] # k2[2] THEN (IF k1[2] < k2[2] THEN "lt" ELSE "ge")
    ELSE IF k1[3] = k2[3] THEN "ge"
    ELSE IF IsNone(k1[3]) \/ IsNone(k2[3]) THEN "TypeError"
    ELSE IF Val(k1[3]) < Val(k2[3]) THEN "lt" ELSE "ge"

\* sorted([a, b], key=...): one comparison key(b) < key(a); the sort is stable.
\* kept is the position of the base among the arguments (1 for a, 2 for b)
SortedPair(a, b) ==
    LET c == KeyLess(SortKey(b), SortKey(a))
    IN IF c = "TypeError" THEN [raised |-> TRUE, base |-> a, other |-> b, kept |-> 0]
       ELSE IF c = "lt" THEN [raised |-> FALSE, base |-> b, other |-> a, kept |-> 2]
       ELSE [raised |-> FALSE, base |-> a, other |-> b, kept |-> 1]

\* a.is_deprecated or b.is_deprecated (also is_nodiscard, is_async)
MergedFlag(x, y) == x \/ y

\* a merge that leaves the files of the base as they are
MergedFilesOfBaseOnly(a, b) == a.files

\* a.files.update(b.files)
MergedFiles(a, b) == a.files \cup b.files

\* a merge that takes the disjunction
MergedForeignOr(a, b) == a.is_foreign \/ b.is_foreign

\* a.is_foreign and b.is_foreign
MergedForeign(a, b) == a.is_foreign /\ b.is_foreign

\* a.line if a.line is not None else b.line
MergedLine(a, b) == IF a.line # None THEN a.line ELSE b.line

\* a merge that appends the docstring of b to a docstring of a
MergedDocstringJoined(a, b) ==
    IF ~DocTruthy(a.docstring)
    THEN [a EXCEPT !.docstring = b.docstring,
                   !.docstring_file = b.docstring_file,
                   !.needs_cleanup = b.needs_cleanup]
    ELSE IF DocTruthy(b.docstring)
    THEN [a EXCEPT !.docstring = Some(Val(a.docstring) \o Val(b.docstring))]
    ELSE a

\* the docstring selection at the end of merge_objects: the fields docstring,
\* docstring_file and needs_cleanup of the base a (a.docstring_file already
\* holds a.docstring_file or b.docstring_file)
MergedDocstring(a, b) ==
    IF ~DocTruthy(a.docstring)
    THEN [a EXCEPT !.docstring = b.docstring,
                   !.docstring_file = b.docstring_file,
                   !.needs_cleanup = b.needs_cleanup]
    ELSE IF /\ DocTruthy(b.docstring)
            /\ DocLen(Val(a.docstring)) < DocLen(Val(b.docstring))
            /\ ~b.is_foreign
    THEN [a EXCEPT !.docstring = b.docstring,
                   !.docstring_file = b.docstring_file,
                   !.needs_cleanup = b.needs_cleanup]
    ELSE a

\* the field assignments of merge_objects after the children of b were moved
MergedFields(a, b) ==
    MergedDocstring(
        [a EXCEPT !.is_deprecated = MergedFlag(a.is_deprecated, b.is_deprecated),
                  !.deprecation_reason = PyOr(a.deprecation_reason, b.deprecation_reason),
                  !.is_nodiscard = MergedFlag(a.is_nodiscard, b.is_nodiscard),
                  !.nodiscard_reason = PyOr(a.nodiscard_reason, b.nodiscard_reason),
                  !.is_async = MergedFlag(a.is_async, b.is_async),
                  !.visibility = IF a.visibility # None THEN a.visibility ELSE b.visibility,
                  !.see = a.see \o b.see,
                  !.files = MergedFiles(a, b),
                  !.docstring_file = IF a.docstring_file # None THEN a.docstring_file
                                                              ELSE b.docstring_file,
                  !.is_foreign = MergedForeign(a, b),
                  !.line = MergedLine(a, b),
                  !.inferred_options = DictUpdate(a.inferred_options, b.inferred_options),
                  !.inferred_doctype = PyOr(a.inferred_doctype, b.inferred_doctype),
                  !.using = a.using \o b.using],
        b)

RECURSIVE MergeObjects(_, _), AddChildren(_, _)

\* Parser.add_child(o, name, child)
AddChild(o, name, child) ==
    IF ~HasChild(o, name)
    THEN [raised |-> FALSE, obj |-> SetChild(o, name, child)]
    ELSE LET m == MergeObjects(GetChild(o, name), child)
         IN IF m.raised THEN [raised |-> TRUE, obj |-> o]
            ELSE [raised |-> FALSE, obj |-> SetChild(o, name, m.obj)]

\* for name, child in b.children.items(): self.add_child(a, name, child)
AddChildren(a, kids) ==
    IF kids = <<>> THEN [raised |-> FALSE, obj |-> a]
    ELSE LET r == AddChild(a, Head(kids).name, Head(kids).obj)
         IN IF r.raised THEN r ELSE AddChildren(r.obj, Tail(kids))

\* Parser.merge_objects(a, b); kept tells which argument is the base, the
\* object that is updated in place and returned (1 for a, 2 for b)
MergeObjects(a, b) ==
    LET s == SortedPair(a, b)
    IN IF s.raised THEN [raised |-> TRUE, obj |-> a, kept |-> 0]
       ELSE LET r == AddChildren(s.base, s.other.children)
            IN IF r.raised THEN [raised |-> TRUE, obj |-> a, kept |-> 0]
               ELSE [raised |-> FALSE, obj |-> MergedFields(r.obj, s.other),
                     kept |-> s.kept]

----------------------------------------------------------------------------
(* str.split(".") and ".".join *)

RECURSIVE SplitFrom(_, _, _)
\* the segments of s from index i on, cur being the segment read so far
SplitFrom(s, i, cur) ==
    IF i > Len(s) THEN <<cur>>
    ELSE IF s[i] = "." THEN <<cur>> \o SplitFrom(s, i + 1, <<>>)
    ELSE SplitFrom(s, i + 1, Append(cur, s[i]))

\* path.split(".")
SplitDot(s) == SplitFrom(s, 1, <<>>)

RECURSIVE JoinDot(_)
\* ".".join(parts)
JoinDot(parts) ==
    IF parts = <<>> THEN <<>>
    ELSE IF Len(parts) = 1 THEN parts[1]
    ELSE parts[1] \o <<".">> \o JoinDot(Tail(parts))

----------------------------------------------------------------------------
(* objtree.py: DocstringMixin *)

\* the !doc lines of docs, applied in order to the options dict
RECURSIVE ScanOptions(_, _)
ScanOptions(options, docs) ==
    IF docs = <<>> THEN options
    ELSE IF Head(docs).k = "doc"
         THEN ScanOptions(
                DictUpdate(options, <<[name |-> Head(docs).name, value |-> Head(docs).arg]>>),
                Tail(docs))
         ELSE ScanOptions(options, Tail(docs))

\* the value of the last !doctype line of docs, doctype if there is none
RECURSIVE ScanDoctype(_, _)
ScanDoctype(doctype, docs) ==
    IF docs = <<>> THEN doctype
    ELSE IF Head(docs).k = "doctype"
         THEN ScanDoctype(Some(Head(docs).name), Tail(docs))
         ELSE ScanDoctype(doctype, Tail(docs))

\* the two re.sub of the cleanup: a line of LuaLs junk is emptied
CleanedUp(o, docs) ==
    IF o.needs_cleanup
    THEN [i \in DOMAIN docs |-> IF docs[i].k = "junk" THEN TextLine("") ELSE docs[i]]
    ELSE docs

\* a line of whitespace only
IsBlank(l) == l.k = "text" /\ l.text = ""

\* the pattern ^\s*\!doc(?:type)?\s+(?:.*)$ matches from line i on: \s* runs
\* over the blank lines from i up to a !doc or !doctype line
Swallowed(docs, i) ==
    /\ IsBlank(docs[i])
    /\ \E j \in (i + 1) .. Len(docs) :
          /\ docs[j].k \in {"doc", "doctype"}
          /\ \A m \in i .. (j - 1) : IsBlank(docs[m])

RECURSIVE WithoutDocLinesFrom(_, _)
WithoutDocLinesFrom(docs, i) ==
    IF i > Len(docs) THEN <<>>
    ELSE IF Swallowed(docs, i) THEN WithoutDocLinesFrom(docs, i + 1)
    ELSE << IF docs[i].k \in {"doc", "doctype"} THEN TextLine("") ELSE docs[i] >>
         \o WithoutDocLinesFrom(docs, i + 1)

\* re.sub of the !doc and !doctype lines: each match, the blank lines before
\* the line included, becomes an empty line
WithoutDocLines(docs) == WithoutDocLinesFrom(docs, 1)

\* DocstringMixin._parse_docstring: the values of _parsed_docstring,
\* _parsed_options and _parsed_doctype.  The docstrings of the model have no
\* "See:" section and no indentation, so the see rewriting and
\* textwrap.dedent leave the text as it is.
ParseDocstring(o) ==
    IF ~DocTruthy(o.docstring)
    THEN [docstring |-> None, options |-> <<>>, doctype |-> o.inferred_doctype]
    ELSE LET docs == CleanedUp(o, Val(o.docstring))
         IN [docstring |-> Some(WithoutDocLines(docs)),
             options |-> ScanOptions(o.inferred_options, docs),
             doctype |-> ScanDoctype(o.inferred_doctype, docs)]

\* the object after the first access to parsed_docstring, parsed_options or
\* parsed_doctype: _parse_options updates the dict inferred_options itself,
\* which _parsed_options then is
AfterParse(o) ==
    IF o.parsed # None THEN o
    ELSE LET p == ParseDocstring(o)
         IN [o EXCEPT !.parsed = Some(p),
                      !.inferred_options = IF DocTruthy(o.docstring) THEN p.options ELSE @]

\* what the cached properties return
Parsed(o) == Val(AfterParse(o).parsed)

\* what the branches for data, table and module that get_kind of Object,
\* Data, Table, Class, Alias and Enum share yield for a doctype that is a str
CommonKind(d) ==
    CASE d \in {"data", "const", "attribute"} -> Some("data")
      [] d = "table" -> Some("table")
      [] d = "module" -> Some("module")
      [] OTHER -> None

\* the Kind a class stands for when no doctype is given
OwnKind(type) ==
    CASE type = "Object" -> "module"
      [] type = "Data" -> "data"
      [] type = "Table" -> "table"
      [] type = "Function" -> "function"
      [] type = "Class" -> "class"
      [] type = "Alias" -> "alias"
      [] type = "Enum" -> "enum"

\* a get_kind that falls back to the Kind of the class where get_kind has None
GetKindCoercing(type, doctype) ==
    IF doctype = None THEN Some(OwnKind(type))
    ELSE IF type = "Function"
    THEN Some("function")
    ELSE IF type \in {"Class", "Alias", "Enum"} /\ Val(doctype) = OwnKind(type)
    THEN Some(OwnKind(type))
    ELSE IF CommonKind(Val(doctype)) = None THEN Some(OwnKind(type))
    ELSE CommonKind(Val(doctype))

\* get_kind of Object and of each subclass: a Kind, or None
GetKind(type, doctype) ==
    IF doctype = None THEN Some(OwnKind(type))
    ELSE IF type = "Function"
    THEN IF Val(doctype) \in {"function", "method", "classmethod", "staticmethod"}
         THEN Some("function") ELSE None
    ELSE IF type \in {"Class", "Alias", "Enum"} /\ Val(doctype) = OwnKind(type)
    THEN Some(OwnKind(type))
    ELSE CommonKind(Val(doctype))

\* Object.kind
Kind(o) == GetKind(o.type, Parsed(o).doctype)

\* AutodocUtilsMixin.render up to its match on root.kind: "error" where
\* self.error(...) is raised, else the Kind whose _render_ method is called
Render(o, kind_override, doctype_override) ==
    LET doctype == Parsed(o).doctype
    IN IF Kind(o) = None THEN "error"
       ELSE IF /\ kind_override # None
               /\ \/ kind_override # Kind(o)
                  \/ (doctype # None /\ Val(doctype) # "" /\ doctype_override # doctype)
       THEN "error"
       ELSE Val(Kind(o))

----------------------------------------------------------------------------
(* objtree.py: Object.find and Object.find_path *)

RECURSIVE FindNames(_, _)
\* the walk of find over the names of a path: the object, or None
FindNames(node, names) ==
    IF names = <<>> THEN Some(node)
    ELSE IF ~HasChild(node, Head(names)) THEN None
    ELSE FindNames(GetChild(node, Head(names)), Tail(names))

\* Object.find(path)
Find(node, path) == FindNames(node, SplitDot(path))

ButLast(s) == SubSeq(s, 1, Len(s) - 1)

\* an end of find_path that pops the last name off modname first
FindPathResultModFirst(node, modname, classname) ==
    IF modname # <<>>
    THEN [obj |-> node, modname |-> JoinDot(ButLast(modname)),
          classname |-> JoinDot(classname),
          name |-> modname[Len(modname)]]
    ELSE IF classname # <<>>
    THEN [obj |-> node, modname |-> JoinDot(modname),
          classname |-> JoinDot(ButLast(classname)),
          name |-> classname[Len(classname)]]
    ELSE [obj |-> node, modname |-> JoinDot(modname),
          classname |-> JoinDot(classname), name |-> <<>>]

\* the end of find_path: the last name is popped off classname if there is
\* one, else off modname, and the rest is joined
FindPathResult(node, modname, classname) ==
    IF classname # <<>>
    THEN [obj |-> node, modname |-> JoinDot(modname),
          classname |-> JoinDot(ButLast(classname)),
          name |-> classname[Len(classname)]]
    ELSE IF modname # <<>>
    THEN [obj |-> node, modname |-> JoinDot(ButLast(modname)),
          classname |-> JoinDot(classname),
          name |-> modname[Len(modname)]]
    ELSE [obj |-> node, modname |-> JoinDot(modname),
          classname |-> JoinDot(classname), name |-> <<>>]

RECURSIVE FindPathWalkUnlatched(_, _, _, _, _)
\* a loop that files each name by the kind of its own record only
FindPathWalkUnlatched(node, names, in_class, modname, classname) ==
    IF names = <<>> THEN Some(FindPathResult(node, modname, classname))
    ELSE IF ~HasChild(node, Head(names)) THEN None
    ELSE LET next == GetChild(node, Head(names))
         IN IF Kind(next) # Some("module")
            THEN FindPathWalkUnlatched(next, Tail(names), FALSE, modname,
                                       Append(classname, Head(names)))
            ELSE FindPathWalkUnlatched(next, Tail(names), FALSE,
                                       Append(modname, Head(names)), classname)

RECURSIVE FindPathWalk(_, _, _, _, _)
\* the loop of find_path
FindPathWalk(node, names, in_class, modname, classname) ==
    IF names = <<>> THEN Some(FindPathResult(node, modname, classname))
    ELSE IF ~HasChild(node, Head(names)) THEN None
    ELSE LET next == GetChild(node, Head(names))
         IN IF in_class \/ Kind(next) # Some("module")
            THEN FindPathWalk(next, Tail(names), TRUE, modname, Append(classname, Head(names)))
            ELSE FindPathWalk(next, Tail(names), FALSE, Append(modname, Head(names)), classname)

\* Object.find_path(path)
FindPath(node, path) == FindPathWalk(node, SplitDot(path), FALSE, <<>>, <<>>)

----------------------------------------------------------------------------
(* objtree.py: Object.find_all_bases *)

\* Records compare and hash by identity (eq=False).  A record of the tree is
\* named here by its path, the one string that find resolves to it.

\* the locals of find_all_bases at the head of the while loop
BasesStart(obj) == [stack |-> obj.bases, seen |-> {}, res |-> <<>>]

\* (base := self.find(basename)) and base != obj, without the test of obj
FoundAny(tree, basename, objpath) == Find(tree, basename) # None

\* (base := self.find(basename)) and base != obj
FoundOther(tree, basename, objpath) ==
    Find(tree, basename) # None /\ basename # objpath

\* one iteration of the while loop: pop the last name of the stack
BasesStep(tree, objpath, st) ==
    LET basename == st.stack[Len(st.stack)]
        rest == ButLast(st.stack)
    IN IF basename \in st.seen THEN [st EXCEPT !.stack = rest]
       ELSE IF FoundOther(tree, basename, objpath)
       THEN LET base == Val(Find(tree, basename))
            IN [stack |-> IF base.type = "Class" THEN rest \o base.bases ELSE rest,
                seen |-> st.seen \cup {basename},
                res |-> Append(st.res, basename)]
       ELSE [stack |-> rest, seen |-> st.seen \cup {basename}, res |-> st.res]

RECURSIVE BasesLoop(_, _, _)
\* the while loop run to its end: the final res
BasesLoop(tree, objpath, st) ==
    IF st.stack = <<>> THEN st.res
    ELSE BasesLoop(tree, objpath, BasesStep(tree, objpath, st))

\* self._bases_cache[obj] = res
CachePut(cache, objpath, res) ==
    [p \in DOMAIN cache \cup {objpath} |-> IF p = objpath THEN res ELSE cache[p]]

\* the cache after find_all_bases(obj)
BasesCacheAfter(tree, cache, objpath) ==
    IF objpath \in DOMAIN cache THEN cache
    ELSE CachePut(cache, objpath,
                  BasesLoop(tree, objpath, BasesStart(Val(Find(tree, objpath)))))

\* find_all_bases(obj): return self._bases_cache[obj]
FindAllBases(tree, cache, objpath) == BasesCacheAfter(tree, cache, objpath)[objpath]

----------------------------------------------------------------------------
(* Python str: comparison, lower, startswith *)

\* ord(c) of the characters of the names and paths of the model
Ord(c) ==
    CASE c = "." -> 46 [] c = "A" -> 65 [] c = "B" -> 66 [] c = "C" -> 67
      [] c = "D" -> 68 [] c = "K" -> 75 [] c = "L" -> 76 [] c = "M" -> 77
      [] c = "N" -> 78 [] c = "Z" -> 90 [] c = "_" -> 95 [] c = "a" -> 97
      [] c = "b" -> 98 [] c = "c" -> 99 [] c = "d" -> 100 [] c = "f" -> 102
      [] c = "g" -> 103 [] c = "h" -> 104 [] c = "k" -> 107 [] c = "l" -> 108
      [] c = "m" -> 109 [] c = "n" -> 110 [] c = "p" -> 112 [] c = "q" -> 113
      [] c = "t" -> 116 [] c = "x" -> 120 [] c = "y" -> 121 [] c = "z" -> 122 [] c = "~" -> 126

\* c.lower()
LowerChar(c) ==
    CASE c = "A" -> "a" [] c = "B" -> "b" [] c = "C" -> "c" [] c = "D" -> "d"
      [] c = "K" -> "k" [] c = "L" -> "l" [] c = "M" -> "m" [] c = "N" -> "n"
      [] c = "Z" -> "z" [] OTHER -> c

\* s.lower()
Lower(s) == [i \in DOMAIN s |-> LowerChar(s[i])]

\* s.startswith(prefix)
StartsWith(s, prefix) ==
    Len(s) >= Len(prefix) /\ SubSeq(s, 1, Len(prefix)) = prefix

\* comparison of ints: -1 for a < b, 0 for a == b, 1 for a > b
IntCmp(a, b) == IF a < b THEN -1 ELSE IF a = b THEN 0 ELSE 1

RECURSIVE StrCmp(_, _)
\* comparison of strs, by code points
StrCmp(s, t) ==
    IF s = <<>> THEN (IF t = <<>> THEN 0 ELSE -1)
    ELSE IF t = <<>> THEN 1
    ELSE IF Head(s) = Head(t) THEN StrCmp(Tail(s), Tail(t))
    ELSE IntCmp(Ord(Head(s)), Ord(Head(t)))

RECURSIVE TupleCmp(_)
\* comparison of tuples, given the comparisons of their components in order
TupleCmp(cs) ==
    IF cs = <<>> THEN 0
    ELSE IF Head(cs) # 0 THEN Head(cs)
    ELSE TupleCmp(Tail(cs))

----------------------------------------------------------------------------
(* autodoc.py: _iter_children *)

\* The value of a list option of a directive (parse_list_option_or_true):
\* True, or a list of names.  An option that is not given is the empty list
\* here: options.get yields None for it, which is as false as [].
OptionAll == [all |-> TRUE, names |-> {}]
OptionNames(ns) == [all |-> FALSE, names |-> ns]
OptionOff == OptionNames({})

\* truth value of an option
OptionTruthy(v) == v.all \/ v.names # {}

\* the names an option adds to include (include.update) unless it is True
OptionList(v) == IF v.all THEN {} ELSE v.names

\* an order of the kinds by their place in the enum
KindOrderOfEnum(kind) ==
    CASE kind = "module" -> 1
      [] kind = "table" -> 2
      [] kind = "data" -> 3
      [] kind = "function" -> 4
      [] kind = "class" -> 5
      [] kind = "alias" -> 6
      [] kind = "enum" -> 7

\* Kind.order (_GROUPWISE_ORDER)
KindOrder(kind) ==
    CASE kind \in {"table", "data"} -> 1
      [] kind = "function" -> 2
      [] kind = "class" -> 3
      [] kind = "alias" -> 4
      [] kind = "enum" -> 5
      [] kind = "module" -> 6

\* path of the child name of the record at path
ChildPath(path, name) == IF path = <<>> THEN name ELSE path \o <<".">> \o name

\* the items of the children dict of the record at path; ref names the record
Items(o, path) ==
    [i \in DOMAIN o.children |->
        [name |-> o.children[i].name, obj |-> o.children[i].obj,
         ref |-> ChildPath(path, o.children[i].name)]]

\* a splice of the globals of any file
SplicedGlobalsOfAnyFile(tree, obj, options, include_globals) ==
    IF /\ Kind(obj) = Some("module")
       /\ OptionTruthy(options.globals)
       /\ include_globals
    THEN SelectSeq(Items(tree, <<>>),
                   LAMBDA e : /\ ~e.obj.is_foreign
                              /\ Kind(e.obj) # Some("module")
                              /\ (options.globals.all \/ e.name \in options.globals.names))
    ELSE <<>>

\* the globals that are spliced into the children of a module
SplicedGlobals(tree, obj, options, include_globals) ==
    IF /\ Kind(obj) = Some("module")
       /\ OptionTruthy(options.globals)
       /\ include_globals
    THEN SelectSeq(Items(tree, <<>>),
                   LAMBDA e : /\ ~e.obj.is_foreign
                              /\ Kind(e.obj) # Some("module")
                              /\ (options.globals.all \/ e.name \in options.globals.names)
                              /\ obj.files \cap e.obj.files # {})
    ELSE <<>>

\* options.get(key) or default, for the options that hold a member order
OrderOr(x, y) == IF x # None THEN x ELSE y

\* the member order that applies to obj
MemberOrder(obj, options) ==
    IF Kind(obj) = Some("module")
    THEN OrderOr(options.module_member_order,
                 OrderOr(options.member_order, Some("bysource")))
    ELSE OrderOr(options.member_order, Some("bysource"))

\* str(docstring_file or "~"), or "" when _FIX_FLAKY_ALIAS_TESTS is set
FileKey(o, fix_flaky) ==
    IF fix_flaky THEN <<>>
    ELSE IF o.docstring_file = None THEN <<"~">>
    ELSE Val(o.docstring_file)

\* line or math.inf: the line 0 is false
LineKey(o) ==
    IF o.line = None \/ Val(o.line) = 0 THEN [inf |-> TRUE, n |-> 0]
    ELSE [inf |-> FALSE, n |-> Val(o.line)]

LineCmp(k1, k2) ==
    IF k1.inf /\ k2.inf THEN 0
    ELSE IF k1.inf THEN 1
    ELSE IF k2.inf THEN -1
    ELSE IntCmp(k1.n, k2.n)

\* (ch[1].kind or Kind.Data).order
GroupKey(o) == KindOrder(IF Kind(o) = None THEN "data" ELSE Val(Kind(o)))

\* comparison of the sort keys of two entries under a member order
KeyCmp(order, fix_flaky, e1, e2) ==
    CASE order = "alphabetical" -> StrCmp(Lower(e1.name), Lower(e2.name))
      [] order = "groupwise" ->
            TupleCmp(<< IntCmp(IF e1.obj.is_toplevel THEN -1 ELSE 0,
                               IF e2.obj.is_toplevel THEN -1 ELSE 0),
                        IntCmp(GroupKey(e1.obj), GroupKey(e2.obj)),
                        StrCmp(e1.name, e2.name) >>)
      [] order = "bysource" ->
            TupleCmp(<< StrCmp(FileKey(e1.obj, fix_flaky), FileKey(e2.obj, fix_flaky)),
                        LineCmp(LineKey(e1.obj), LineKey(e2.obj)),
                        StrCmp(e1.name, e2.name) >>)

RECURSIVE Inserted(_, _, _, _)
\* e put into a sorted list behind every entry that is not greater
Inserted(order, fix_flaky, sorted, e) ==
    IF sorted = <<>> THEN <<e>>
    ELSE IF KeyCmp(order, fix_flaky, e, Head(sorted)) < 0 THEN <<e>> \o sorted
    ELSE <<Head(sorted)>> \o Inserted(order, fix_flaky, Tail(sorted), e)

RECURSIVE Sorted(_, _, _)
\* children.sort(key=...): a stable sort
Sorted(order, fix_flaky, es) ==
    IF es = <<>> THEN <<>>
    ELSE Inserted(order, fix_flaky, Sorted(order, fix_flaky, ButLast(es)), es[Len(es)])

\* whether parent is a class whose bases are looked up
HasBases(tree, parent) ==
    /\ parent # None
    /\ Kind(Val(Find(tree, Val(parent)))) = Some("class")
    /\ Val(Find(tree, Val(parent))).type = "Class"

\* inherited_names: the names of the children of all bases of parent
InheritedNames(tree, cache, parent) ==
    IF HasBases(tree, parent)
    THEN LET bases == FindAllBases(tree, cache, Val(parent))
         IN UNION {ChildNames(Val(Find(tree, bases[i]))) : i \in DOMAIN bases}
    ELSE {}

\* the options that include members
IncludeOptions(options) ==
    { options.members, options.undoc_members, options.private_members,
      options.protected_members, options.package_members,
      options.special_members, options.inherited_members }

\* include: the names of the options that are lists
Include(options) == UNION {OptionList(v) : v \in IncludeOptions(options)}

\* exclude: the names of exclude-members, none if it is True
Exclude(options) == OptionList(options.exclude_members)

\* whether the loop over the children looks at the category of a child
Gated(e, options) ==
    /\ e.name \notin Exclude(options)
    /\ e.name \notin Include(options)
    /\ ~e.obj.is_toplevel

\* the gates without the last one, which asks for the option members
YieldedWithoutMembers(e, options, inherited_names) ==
    LET child == e.obj
        is_undoc == ~DocTruthy(Parsed(child).docstring)
        is_private == \/ child.visibility = Some("private")
                      \/ "private" \in OptNames(Parsed(child).options)
        is_protected == \/ child.visibility = Some("protected")
                        \/ "protected" \in OptNames(Parsed(child).options)
        is_package == \/ child.visibility = Some("package")
                      \/ "package" \in OptNames(Parsed(child).options)
        is_special == StartsWith(e.name, <<"_", "_">>)
        is_inherited == e.name \in inherited_names
    IN IF e.name \in Exclude(options) THEN FALSE
       ELSE IF ~Gated(e, options) THEN TRUE
       ELSE /\ ~(is_undoc /\ ~options.undoc_members.all)
            /\ ~(is_private /\ ~options.private_members.all)
            /\ ~(is_protected /\ ~options.protected_members.all)
            /\ ~(is_package /\ ~options.package_members.all)
            /\ ~(is_special /\ ~options.special_members.all)
            /\ ~(is_inherited /\ ~options.inherited_members.all)

\* the gates of the loop over the children: whether (name, child) is yielded
Yielded(e, options, inherited_names) ==
    LET child == e.obj
        is_undoc == ~DocTruthy(Parsed(child).docstring)
        is_private == \/ child.visibility = Some("private")
                      \/ "private" \in OptNames(Parsed(child).options)
        is_protected == \/ child.visibility = Some("protected")
                        \/ "protected" \in OptNames(Parsed(child).options)
        is_package == \/ child.visibility = Some("package")
                      \/ "package" \in OptNames(Parsed(child).options)
        is_special == StartsWith(e.name, <<"_", "_">>)
        is_inherited == e.name \in inherited_names
    IN IF e.name \in Exclude(options) THEN FALSE
       ELSE IF ~Gated(e, options) THEN TRUE
       ELSE /\ ~(is_undoc /\ ~options.undoc_members.all)
            /\ ~(is_private /\ ~options.private_members.all)
            /\ ~(is_protected /\ ~options.protected_members.all)
            /\ ~(is_package /\ ~options.package_members.all)
            /\ ~(is_special /\ ~options.special_members.all)
            /\ ~(is_inherited /\ ~options.inherited_members.all)
            /\ ~(/\ ~is_undoc /\ ~is_private /\ ~is_protected /\ ~is_package
                 /\ ~is_special /\ ~is_inherited
                 /\ ~options.members.all)

RECURSIVE UpdatedAt(_, _, _)
\* the tree under node with the record at names replaced by new
UpdatedAt(node, names, new) ==
    IF names = <<>> THEN new
    ELSE SetChild(node, Head(names),
                  UpdatedAt(GetChild(node, Head(names)), Tail(names), new))

RECURSIVE ParsedAll(_, _)
\* the tree after parsed_docstring, parsed_options, parsed_doctype or kind of
\* the records at refs were read
ParsedAll(tree, refs) ==
    IF refs = <<>> THEN tree
    ELSE LET names == SplitDot(Head(refs))
         IN ParsedAll(UpdatedAt(tree, names, AfterParse(Val(FindNames(tree, names)))),
                      Tail(refs))

Refs(es) == [i \in DOMAIN es |-> es[i].ref]

\* obj.children, had children been the list of obj itself and not a copy
ChildrenAfterCallShared(o, children) ==
    [i \in DOMAIN children |-> [name |-> children[i].name, obj |-> children[i].obj]]

\* obj.children after the call: children = list(obj.children.items()) is a
\* new list, the appends and the sort do not reach obj.children
ChildrenAfterCall(o, children) == o.children

\* the records whose cached properties the call reads, in the order of reading
Touched(tree, objpath, parent, options, include_globals, children, known) ==
    LET obj == Val(Find(tree, objpath))
    IN <<objpath>>
       \o (IF /\ Kind(obj) = Some("module")
              /\ OptionTruthy(options.globals)
              /\ include_globals
           THEN Refs(SelectSeq(Items(tree, <<>>), LAMBDA e : ~e.obj.is_foreign))
           ELSE <<>>)
       \o (IF MemberOrder(obj, options) = Some("groupwise") THEN Refs(children) ELSE <<>>)
       \o (IF known /\ parent # None THEN <<Val(parent)>> ELSE <<>>)
       \o (IF known THEN Refs(SelectSeq(children, LAMBDA e : Gated(e, options))) ELSE <<>>)

\* list(_iter_children(obj, objtree, parent, options, include_globals)) on the
\* tree objtree with the bases cache: whether RuntimeError is raised, the
\* (name, child) pairs yielded, the pairs of the list children before it is
\* sorted, and the tree and the cache after the call
IterChildren(tree, cache, objpath, parent, options, include_globals, fix_flaky) ==
    LET obj == Val(Find(tree, objpath))
        children == Items(obj, objpath)
                    \o SplicedGlobals(tree, obj, options, include_globals)
        order == Val(MemberOrder(obj, options))
        known == order \in {"alphabetical", "groupwise", "bysource"}
        sorted == IF known THEN Sorted(order, fix_flaky, children) ELSE children
        inherited_names == InheritedNames(tree, cache, parent)
        yielded == SelectSeq(sorted, LAMBDA e : Yielded(e, options, inherited_names))
        left == UpdatedAt(tree, SplitDot(objpath),
                          [obj EXCEPT !.children = ChildrenAfterCall(obj, sorted)])
    IN [ raised |-> ~known,
         candidates |-> [i \in DOMAIN children |-> <<children[i].name, children[i].ref>>],
         items |-> IF known
                   THEN [i \in DOMAIN yielded |-> <<yielded[i].name, yielded[i].ref>>]
                   ELSE <<>>,
         tree |-> ParsedAll(left, Touched(tree, objpath, parent, options,
                                          include_globals, children, known)),
         cache |-> IF known /\ HasBases(tree, parent)
                   THEN BasesCacheAfter(tree, cache, Val(parent))
                   ELSE cache ]

----------------------------------------------------------------------------
(* objtree.py: Parser.add *)

\* the record add makes for a missing component: Object(needs_cleanup=...)
Container(nc) == NewObject("Object", nc)

RECURSIVE AddAt(_, _, _, _, _)
\* the walk of add from node along components, which makes an empty Object
\* for every missing component, and then add_child(node, name, o)
AddAt(node, components, name, o, nc) ==
    IF components = <<>> THEN AddChild(node, name, o)
    ELSE LET c == Head(components)
             next == IF HasChild(node, c) THEN GetChild(node, c) ELSE Container(nc)
             r == AddAt(next, Tail(components), name, o, nc)
         IN IF r.raised THEN [raised |-> TRUE, obj |-> node]
            ELSE [raised |-> FALSE, obj |-> SetChild(node, c, r.obj)]

\* Parser.add(path, o) on the tree under node
ParserAdd(node, path, o) ==
    LET names == SplitDot(path)
        components == ButLast(names)
        name == names[Len(names)]
        o1 == IF components = <<>> THEN [o EXCEPT !.is_toplevel = TRUE] ELSE o
    IN AddAt(node, components, name, o1, node.needs_cleanup)

----------------------------------------------------------------------------
(* The records given to merge_objects *)

FileA == <<"a">>
FileB == <<"b">>
NameX == <<"x">>
NameY == <<"y">>

DocShort == <<TextLine("d")>>
DocLong == <<TextLine("dd")>>

OptLines == {None} \cup {Some(n) : n \in 0 .. MaxLine}

\* a record without children, as a parser builds it
Leaf(type, foreign, line, docstring) ==
    [NewObject(type, FALSE) EXCEPT !.is_foreign = foreign,
                                   !.line = line,
                                   !.docstring = docstring]

WithFlags(o, dep, asy, nod) ==
    [o EXCEPT !.is_deprecated = dep, !.is_async = asy, !.is_nodiscard = nod]

WithKids(o, files, kids) == [o EXCEPT !.files = files, !.children = kids]

Entry(name, obj) == [name |-> name, obj |-> obj]

LeafInputs ==
    {Leaf(t, f, l, d) : t \in Types, f \in BOOLEAN, l \in OptLines,
                        d \in {None, Some(<<>>), Some(DocShort), Some(DocLong)}}

FlagInputs ==
    {WithFlags(Leaf("Data", f, l, None), fl[1], fl[2], fl[3]) :
        f \in BOOLEAN, l \in {None, Some(0)},
        fl \in BOOLEAN \X BOOLEAN \X BOOLEAN}

\* members of a class or table
Kids ==
    {WithKids(Leaf(t, f, l, Some(DocShort)), {FileA}, <<>>) :
        t \in {"Data", "Function"}, f \in BOOLEAN, l \in {None, Some(0)}}

KidLists ==
    {<<Entry(NameX, k)>> : k \in Kids}
    \cup {<<Entry(NameX, k), Entry(NameY, k)>> :
            k \in {WithKids(Leaf("Data", FALSE, Some(0), None), {FileB}, <<>>)}}
    \cup {<<Entry(NameY, WithKids(Leaf("Table", f, None, Some(DocLong)), {FileB},
                                  <<Entry(NameX, k)>>))>> :
            f \in BOOLEAN,
            k \in {WithKids(Leaf("Function", FALSE, l, None), {FileA}, <<>>) :
                      l \in {None, Some(0)}}}

TreeInputs ==
    {WithKids(Leaf(t, f, None, Some(DocShort)), fs, ks) :
        t \in {"Object", "Class"}, f \in BOOLEAN, fs \in {{FileA}, {FileB}},
        ks \in KidLists}

\* definitions with and without a visibility and a file of the docstring
ScalarInputs ==
    {[Leaf("Data", FALSE, l, d) EXCEPT !.visibility = v, !.docstring_file = df,
                                       !.files = IF df = None THEN {} ELSE {Val(df)}] :
        l \in {None, Some(0)},
        d \in {None, Some(DocShort), Some(DocLong)},
        v \in {None, Some("private"), Some("protected")},
        df \in {None, Some(FileA), Some(FileB)}}

MergeInputs == LeafInputs \cup FlagInputs \cup TreeInputs \cup ScalarInputs

----------------------------------------------------------------------------
(* __init__.py: run_lua_ls, and LuaLs.run of lua_ls.py *)

MaxMtime == 1

\* the project directories, and the files: a Lua file in each directory and
\* the configuration file .luarc.json of the root directory
DirD1 == <<"d", "1">>
DirD2 == <<"d", "2">>
LuaA == <<"d", "1", "/", "a", ".", "l", "u", "a">>
LuaB == <<"d", "2", "/", "b", ".", "l", "u", "a">>
LuaRc == <<"d", "1", "/", ".", "l", "u", "a", "r", "c">>
DiskFiles == {LuaA, LuaB, LuaRc}

\* dir.rglob("*.lua")
LuaFilesUnder(dir, files) ==
    {f \in DOMAIN files : files[f] # None /\ StartsWith(f, dir \o <<"/">>)
                          /\ SubSeq(f, Len(f) - 3, Len(f)) = <<".", "l", "u", "a">>}

\* before the first call and outside the calls of run_lua_ls
LsIdle ==
    /\ data = None
    /\ disk = [f \in DiskFiles |-> None]
    /\ dirs = <<DirD1>>
    /\ exits = [d \in {DirD1, DirD2} |-> 0]
    /\ invocations = [d \in {DirD1, DirD2} |-> 0]
    /\ outcome = "idle"
    /\ settled = FALSE

\* a comparison of the timestamps that takes any difference
Newer(now, modtime) == now # modtime

\* a comparison of the timestamps that takes a file that was not touched
NotEarlier(now, modtime) == now >= modtime

\* path.stat().st_mtime_ns > modtime
Later(now, modtime) == now > modtime

\* modified, where run_lua_ls tests it
Modified(cached, files, directories) ==
    \/ cached = None
    \/ Val(cached).objtree_roots # directories
    \/ \E path \in DOMAIN Val(cached).objtree_paths :
          \/ files[path] = None
          \/ Later(Val(files[path]), Val(cached).objtree_paths[path])
    \/ \E i \in DOMAIN directories : \E path \in LuaFilesUnder(directories[i], files) :
          path \notin DOMAIN Val(cached).objtree_paths

\* a run that starts the subprocess again after it has failed
LuaLsRunRetrying(code) == [raised |-> code # 0, runs |-> IF code # 0 THEN 2 ELSE 1]

\* LuaLs.run: one subprocess.run with check=True; LuaLsRunError on a
\* non-zero exit code
LuaLsRun(code) == [raised |-> code # 0, runs |-> 1]

RECURSIVE RunDirs(_, _, _, _)
\* the loop over project_directories from directories[i] on: the subprocess
\* runs by directory, and whether LuaLsRunError left the loop
RunDirs(directories, codes, i, runs) ==
    IF i > Len(directories) THEN [raised |-> FALSE, runs |-> runs]
    ELSE LET r == LuaLsRun(codes[directories[i]])
             after == [runs EXCEPT ![directories[i]] = @ + r.runs]
         IN IF r.raised THEN [raised |-> TRUE, runs |-> after]
            ELSE RunDirs(directories, codes, i + 1, after)

\* parser.files after the loop: the configuration files that exist and the
\* Lua files of the project directories
ParserFiles(files, directories) ==
    {f \in {LuaRc} : files[f] # None}
    \cup UNION {LuaFilesUnder(directories[i], files) : i \in DOMAIN directories}

\* parser.root after the loop, named by the versions of the Lua files that
\* the language server has read
ParserRoot(files, directories) ==
    LET read == UNION {LuaFilesUnder(directories[i], files) : i \in DOMAIN directories}
    IN [f \in read |-> Val(files[f])]

\* the three assignments to domain.data at the end of run_lua_ls
Installed(files, directories) ==
    Some([objtree |-> ParserRoot(files, directories),
          objtree_roots |-> directories,
          objtree_paths |-> [f \in ParserFiles(files, directories) |-> Val(files[f])]])

----------------------------------------------------------------------------
(* SpecMerge: merge_objects applied to a pair of records, in both orders *)

NoResult == [raised |-> FALSE, obj |-> NewObject("Object", FALSE), kept |-> 0]

\* no call of find_all_bases yet: root has no _bases_cache
NoCache == [p \in {} |-> <<>>]

BasesIdle ==
    /\ fbCache = NoCache
    /\ fbObj = <<>>
    /\ fbStack = <<>>
    /\ fbSeen = {}
    /\ fbRes = <<>>
    /\ fbRet = None
    /\ fbpc = "idle"

\* the options of a directive that gives none
NoOptions ==
    [ globals |-> OptionOff, members |-> OptionOff, undoc_members |-> OptionOff,
      private_members |-> OptionOff, protected_members |-> OptionOff,
      package_members |-> OptionOff, special_members |-> OptionOff,
      inherited_members |-> OptionOff, exclude_members |-> OptionOff,
      member_order |-> None, module_member_order |-> None ]

FnIdle ==
    /\ fnArgs = <<>>
    /\ fnOut = None

IterIdle ==
    /\ itArgs = [obj |-> <<>>, parent |-> None, options |-> NoOptions,
                 include_globals |-> TRUE, fix_flaky |-> FALSE]
    /\ itResults = <<>>

TreeIdle ==
    /\ root = NewObject("Object", FALSE)
    /\ raised = FALSE
    /\ nadds = 0
    /\ added = {}
    /\ contrib = {}

InitMerge ==
    /\ LsIdle
    /\ ma \in MergeInputs
    /\ mb \in MergeInputs
    /\ mab = NoResult
    /\ mba = NoResult
    /\ mpc = "args"
    /\ TreeIdle
    /\ BasesIdle
    /\ IterIdle
    /\ FnIdle

Merge ==
    /\ mpc = "args"
    /\ mab' = MergeObjects(ma, mb)
    /\ mba' = MergeObjects(mb, ma)
    /\ mpc' = "done"
    /\ UNCHANGED <<ma, mb>>
    /\ UNCHANGED treeVars
    /\ UNCHANGED basesVars
    /\ UNCHANGED iterVars
    /\ UNCHANGED fnVars
    /\ UNCHANGED lsVars

NextMerge == Merge

SpecMerge == InitMerge /\ [][NextMerge]_vars

----------------------------------------------------------------------------
(* Spec: the construction of the tree by calls of Parser.add *)

\* the paths of the raw definitions: a top-level name, nested names, and a
\* name with an empty last segment
AddPaths ==
    { <<"a">>, <<"b">>, <<"a", ".", "b">>, <<"a", ".", "b", ".", "a">>, <<"a", ".">> }

\* the raw definitions: a module with a member b, a foreign module, a class,
\* a foreign variable and a variable without line number
AddRecords ==
    { WithKids(Leaf("Object", FALSE, None, None), {FileA},
               <<Entry(<<"b">>, WithKids(Leaf("Data", FALSE, Some(0), None), {FileA}, <<>>))>>),
      WithKids(Leaf("Object", TRUE, None, None), {FileB}, <<>>),
      WithKids(Leaf("Class", FALSE, Some(0), Some(DocShort)), {FileA}, <<>>),
      WithKids(Leaf("Data", TRUE, Some(0), None), {FileB}, <<>>),
      WithKids(Leaf("Data", FALSE, None, None), {FileB}, <<>>) }

MergeIdle ==
    /\ ma = NewObject("Object", FALSE)
    /\ mb = NewObject("Object", FALSE)
    /\ mab = NoResult
    /\ mba = NoResult
    /\ mpc = "idle"

\* Parser.__init__ of LuaLsParser (needs_cleanup) or EmmyLuaParser
Init ==
    /\ LsIdle
    /\ root \in {NewObject("Object", nc) : nc \in BOOLEAN}
    /\ raised = FALSE
    /\ nadds = 0
    /\ added = {}
    /\ contrib = {}
    /\ MergeIdle
    /\ BasesIdle
    /\ IterIdle
    /\ FnIdle

RECURSIVE RawDefs(_, _)
\* the raw definitions that add(path, o) brings: o at names, its children below
RawDefs(names, o) ==
    {<<names, o.is_foreign, o.files>>}
    \cup UNION {RawDefs(Append(names, o.children[i].name), o.children[i].obj) :
                    i \in DOMAIN o.children}

\* a call of add that returns
AddReturns(path, o) ==
    /\ ~raised
    /\ nadds < MaxAdds
    /\ LET r == ParserAdd(root, path, o)
       IN /\ ~r.raised
          /\ root' = r.obj
    /\ nadds' = nadds + 1
    /\ added' = added \cup {path}
    /\ contrib' = contrib \cup RawDefs(SplitDot(path), o)
    /\ UNCHANGED raised
    /\ UNCHANGED mergeVars
    /\ UNCHANGED basesVars
    /\ UNCHANGED iterVars
    /\ UNCHANGED fnVars
    /\ UNCHANGED lsVars

\* a call of add out of which merge_objects raises TypeError: the exception
\* leaves Parser.parse and run_lua_ls, and the tree is never installed
AddRaises(path, o) ==
    /\ ~raised
    /\ nadds < MaxAdds
    /\ ParserAdd(root, path, o).raised
    /\ raised' = TRUE
    /\ nadds' = nadds + 1
    /\ UNCHANGED <<root, added, contrib>>
    /\ UNCHANGED mergeVars
    /\ UNCHANGED basesVars
    /\ UNCHANGED iterVars
    /\ UNCHANGED fnVars
    /\ UNCHANGED lsVars

Next ==
    \E path \in AddPaths, o \in AddRecords :
        \/ AddReturns(path, o)
        \/ AddRaises(path, o)

Spec == Init /\ [][Next]_vars

RECURSIVE PathsBelow(_, _)
\* the paths (as sequences of names) of the records below node
PathsBelow(node, prefix) ==
    UNION {{Append(prefix, node.children[i].name)}
           \cup PathsBelow(node.children[i].obj, Append(prefix, node.children[i].name)) :
              i \in DOMAIN node.children}

RecordAt(names) == Val(FindNames(root, names))
DefsAt(names) == {d \in contrib : d[1] = names}

----------------------------------------------------------------------------
(* SpecBases: calls of find_all_bases on trees of classes *)

NameA == <<"A">>
NameB == <<"B">>
NameD == <<"D">>
NameZ == <<"Z">>

\* the names in the bases lists: the classes A and B, the variable D and a
\* name that the tree does not define
BaseNames == {NameA, NameB, NameD, NameZ}

\* the bases lists (Class.bases), duplicates included
BaseLists == UNION {[1 .. n -> BaseNames] : n \in 0 .. MaxBases}

ClassWithBases(bases) ==
    [WithKids(Leaf("Class", FALSE, Some(0), None), {FileA}, <<>>) EXCEPT !.bases = bases]

\* a tree with the classes A and B and the variable D on top level
BasesTree(basesA, basesB) ==
    WithKids(NewObject("Object", FALSE), {},
             << Entry(NameA, ClassWithBases(basesA)),
                Entry(NameB, ClassWithBases(basesB)),
                Entry(NameD, WithKids(Leaf("Data", FALSE, Some(0), None), {FileA}, <<>>)) >>)

\* the bases lists of B: none, A (a cycle when A names B), B itself, both,
\* and names that are no classes
BaseListsOfB ==
    { <<>>, <<NameA>>, <<NameB>>, <<NameB, NameA>>, <<NameA, NameA>>, <<NameZ, NameD>> }

BasesTrees == {BasesTree(ba, bb) : ba \in BaseLists, bb \in BaseListsOfB}

\* the classes of the tree, by path
ClassPaths == {NameA, NameB}

InitBases ==
    /\ LsIdle
    /\ root \in BasesTrees
    /\ raised = FALSE
    /\ nadds = 0
    /\ added = {}
    /\ contrib = {}
    /\ MergeIdle
    /\ BasesIdle
    /\ IterIdle
    /\ FnIdle

\* find_all_bases(obj) when obj is in the cache: the cached list is returned
FindAllBasesCached(objpath) ==
    /\ fbpc = "idle"
    /\ objpath \in DOMAIN fbCache
    /\ fbObj' = objpath
    /\ fbRet' = Some(fbCache[objpath])
    /\ fbStack' = <<>>
    /\ fbSeen' = {}
    /\ fbRes' = <<>>
    /\ UNCHANGED <<fbCache, fbpc>>
    /\ UNCHANGED <<treeVars, mergeVars, iterVars, fnVars, lsVars>>

\* find_all_bases(obj) when obj is not in the cache: the locals are set up
FindAllBasesEnter(objpath) ==
    /\ fbpc = "idle"
    /\ objpath \notin DOMAIN fbCache
    /\ fbObj' = objpath
    /\ LET st == BasesStart(Val(Find(root, objpath)))
       IN /\ fbStack' = st.stack
          /\ fbSeen' = st.seen
          /\ fbRes' = st.res
    /\ fbRet' = None
    /\ fbpc' = "loop"
    /\ UNCHANGED fbCache
    /\ UNCHANGED <<treeVars, mergeVars, iterVars, fnVars, lsVars>>

\* one iteration of the while loop
FindAllBasesIterate ==
    /\ fbpc = "loop"
    /\ fbStack # <<>>
    /\ LET st == BasesStep(root, fbObj, [stack |-> fbStack, seen |-> fbSeen, res |-> fbRes])
       IN /\ fbStack' = st.stack
          /\ fbSeen' = st.seen
          /\ fbRes' = st.res
    /\ UNCHANGED <<fbCache, fbObj, fbRet, fbpc>>
    /\ UNCHANGED <<treeVars, mergeVars, iterVars, fnVars, lsVars>>

\* the stack is empty: res is put into the cache and returned
FindAllBasesReturn ==
    /\ fbpc = "loop"
    /\ fbStack = <<>>
    /\ fbCache' = CachePut(fbCache, fbObj, fbRes)
    /\ fbRet' = Some(fbRes)
    /\ fbpc' = "idle"
    /\ UNCHANGED <<fbObj, fbStack, fbSeen, fbRes>>
    /\ UNCHANGED <<treeVars, mergeVars, iterVars, fnVars, lsVars>>

NextBases ==
    \/ \E objpath \in ClassPaths : FindAllBasesCached(objpath)
    \/ \E objpath \in ClassPaths : FindAllBasesEnter(objpath)
    \/ FindAllBasesIterate
    \/ FindAllBasesReturn

\* a call that has started keeps running: the loop is not preempted for ever
SpecBases ==
    /\ InitBases
    /\ [][NextBases]_vars
    /\ WF_vars(FindAllBasesIterate)
    /\ WF_vars(FindAllBasesReturn)

----------------------------------------------------------------------------
(* SpecIter: successive calls of _iter_children on a finished tree *)

RECURSIVE Built(_, _)
\* the root after Parser.add(path, o) for every <<path, o>> of adds
Built(tree, adds) ==
    IF adds = <<>> THEN tree
    ELSE Built(ParserAdd(tree, Head(adds)[1], Head(adds)[2]).obj, Tail(adds))

\* a definition as a parser hands it to add
Member(nc, type, line, docstring, file, visibility) ==
    [Leaf(type, FALSE, line, docstring) EXCEPT
        !.needs_cleanup = nc,
        !.files = {file},
        !.docstring_file = IF docstring = None THEN None ELSE Some(file),
        !.visibility = visibility]

DocProtected == <<TextLine("d"), DocLine("doc", "!doc protected", "protected", "")>>
\* a line of LuaLs junk before the !doc line: with the cleanup nothing is left
DocPackage ==
    <<DocLine("junk", "@*x*", "", ""), DocLine("doc", "!doc package", "package", "")>>
DocModule == <<DocLine("doctype", "!doctype module", "module", "")>>
DocClass == <<TextLine("d"), DocLine("doctype", "!doctype class", "class", "")>>

\* the members of the module M: documented and undocumented ones, names that
\* are equal up to case, a special name, and private, protected and package
\* ones by visibility or by a !doc line
MembersOfM(nc) ==
    << Entry(<<"b">>, Member(nc, "Data", Some(2), Some(DocShort), FileA, None)),
       Entry(<<"B">>, Member(nc, "Function", Some(1), Some(DocShort), FileA, None)),
       Entry(<<"_", "c">>, Member(nc, "Data", None, None, FileA, None)),
       Entry(<<"_", "_", "d">>, Member(nc, "Function", Some(1), Some(DocShort), FileA, None)),
       Entry(<<"p">>, Member(nc, "Data", Some(1), Some(DocShort), FileB, Some("private"))),
       Entry(<<"q">>, Member(nc, "Data", Some(0), Some(DocProtected), FileA, None)),
       Entry(<<"k">>, Member(nc, "Data", None, Some(DocPackage), FileA, None)),
       Entry(<<"x">>, Member(nc, "Table", Some(0), Some(DocShort), FileA, Some("public"))) >>

\* the definitions of a finished tree: the module M, globals of the files of
\* M and of another file, a foreign global, globals that a !doctype turns
\* into a module or into no kind, and the classes K and L, each a base of the
\* other; K has a member of every Kind but Table
IterAdds(nc) ==
    << << <<"M">>, WithKids(Member(nc, "Object", None, Some(DocShort), FileA, None),
                           {FileA}, MembersOfM(nc)) >>,
       << <<"g">>, Member(nc, "Data", Some(1), Some(DocShort), FileA, None) >>,
       << <<"h">>, Member(nc, "Data", Some(0), None, FileB, None) >>,
       << <<"f">>, [Member(nc, "Function", None, Some(DocShort), FileA, None)
                        EXCEPT !.is_foreign = TRUE] >>,
       << <<"n">>, Member(nc, "Data", None, Some(DocModule), FileA, None) >>,
       << <<"t">>, Member(nc, "Function", None, Some(DocClass), FileA, None) >>,
       << <<"K">>, [WithKids(Member(nc, "Class", Some(1), Some(DocShort), FileA, None), {FileA},
                      << Entry(<<"x">>, Member(nc, "Data", Some(2), Some(DocShort), FileA, None)),
                         Entry(<<"y">>, Member(nc, "Function", Some(1), Some(DocShort), FileA, None)),
                         Entry(<<"m">>, Member(nc, "Object", Some(1), Some(DocShort), FileA, None)),
                         Entry(<<"N">>, Member(nc, "Enum", Some(1), Some(DocShort), FileA, None)),
                         Entry(<<"A">>, Member(nc, "Alias", Some(2), Some(DocShort), FileA, None)),
                         Entry(<<"C">>, Member(nc, "Class", Some(2), Some(DocShort), FileA, None)) >>)
                        EXCEPT !.bases = << <<"L">>, <<"Z">> >>] >>,
       << <<"L">>, [WithKids(Member(nc, "Class", None, None, FileB, None), {FileB},
                      << Entry(<<"x">>, Member(nc, "Data", None, None, FileB, None)),
                         Entry(<<"z">>, Member(nc, "Data", None, None, FileB, None)) >>)
                        EXCEPT !.bases = << <<"K">> >>] >> >>

\* the trees: built by a LuaLsParser or an EmmyLuaParser
IterTrees == {Built(NewObject("Object", nc), IterAdds(nc)) : nc \in BOOLEAN}

MemberOrders == {None, Some("alphabetical"), Some("groupwise"), Some("bysource")}

\* option maps that give any of the including options as a flag
FlagOptions ==
    { [NoOptions EXCEPT !.members = IF fl[1] THEN OptionAll ELSE OptionOff,
                        !.undoc_members = IF fl[2] THEN OptionAll ELSE OptionOff,
                        !.private_members = IF fl[3] THEN OptionAll ELSE OptionOff,
                        !.protected_members = IF fl[4] THEN OptionAll ELSE OptionOff,
                        !.package_members = IF fl[5] THEN OptionAll ELSE OptionOff,
                        !.special_members = IF fl[6] THEN OptionAll ELSE OptionOff,
                        !.inherited_members = IF fl[7] THEN OptionAll ELSE OptionOff,
                        !.member_order = mo] :
        fl \in [1 .. 7 -> BOOLEAN], mo \in {None, Some("groupwise")} }

\* option maps with globals, lists of names, exclusions and a member order
\* of modules
ListOptions ==
    { [NoOptions EXCEPT !.members = m,
                        !.private_members = pm,
                        !.globals = g,
                        !.exclude_members = ex,
                        !.member_order = mo,
                        !.module_member_order = mmo] :
        m \in {OptionOff, OptionAll},
        pm \in {OptionOff, OptionNames({<<"p">>, <<"_", "c">>})},
        g \in {OptionOff, OptionAll, OptionNames({<<"g">>, <<"n">>})},
        ex \in {OptionAll, OptionNames({<<"b">>, <<"g">>})},
        mo \in MemberOrders,
        mmo \in {None, Some("alphabetical")} }

\* option maps whose members is a list that names a member of M and one of K
NamedOptions ==
    { [NoOptions EXCEPT !.members = OptionNames({<<"B">>, <<"y">>}),
                        !.exclude_members = ex,
                        !.member_order = mo] :
        ex \in {OptionOff, OptionNames({<<"b">>, <<"g">>})},
        mo \in {None, Some("groupwise")} }

\* the arguments of the calls: obj is the module M or the class K; parent is
\* None, a class or a module
IterArgs ==
    { [obj |-> o, parent |-> pa, options |-> op, include_globals |-> TRUE,
       fix_flaky |-> FALSE] :
        o \in {<<"M">>, <<"K">>}, pa \in {None, Some(<<"K">>), Some(<<"M">>)},
        op \in FlagOptions \cup NamedOptions }
    \cup
    { [obj |-> o, parent |-> pa, options |-> op, include_globals |-> fl[1],
       fix_flaky |-> fl[2]] :
        o \in {<<"M">>, <<"K">>}, pa \in {None, Some(<<"K">>)}, op \in ListOptions,
        fl \in {<<TRUE, FALSE>>, <<FALSE, FALSE>>, <<TRUE, TRUE>>} }

InitIter ==
    /\ LsIdle
    /\ root \in IterTrees
    /\ raised = FALSE
    /\ nadds = 0
    /\ added = {}
    /\ contrib = {}
    /\ MergeIdle
    /\ BasesIdle
    /\ itArgs \in IterArgs
    /\ itResults = <<>>
    /\ FnIdle

\* one call of _iter_children whose generator is run to its end: the parse
\* caches of the records it reads and the bases cache stay behind
IterChildrenCall ==
    /\ Len(itResults) < MaxCalls
    /\ LET r == IterChildren(root, fbCache, itArgs.obj, itArgs.parent, itArgs.options,
                             itArgs.include_globals, itArgs.fix_flaky)
       IN /\ itResults' = Append(itResults, [raised |-> r.raised, items |-> r.items,
                                             candidates |-> r.candidates])
          /\ root' = r.tree
          /\ fbCache' = r.cache
    /\ UNCHANGED itArgs
    /\ UNCHANGED <<raised, nadds, added, contrib>>
    /\ UNCHANGED <<fbObj, fbStack, fbSeen, fbRes, fbRet, fbpc>>
    /\ UNCHANGED mergeVars
    /\ UNCHANGED fnVars
    /\ UNCHANGED lsVars

NextIter == IterChildrenCall

SpecIter == InitIter /\ [][NextIter]_vars

----------------------------------------------------------------------------
(* utils.py: splitting of signatures *)

\* c.isspace() for the characters of a signature
IsSpace(c) == c \in {" ", "\t", "\n", "\r"}

RECURSIVE LStrip(_)
LStrip(s) == IF s # <<>> /\ IsSpace(Head(s)) THEN LStrip(Tail(s)) ELSE s

RECURSIVE RStrip(_)
RStrip(s) ==
    IF s # <<>> /\ IsSpace(s[Len(s)]) THEN RStrip(SubSeq(s, 1, Len(s) - 1)) ELSE s

\* s.strip()
Strip(s) == RStrip(LStrip(s))

\* the characters of the strings of openers, of closers and of quotes; the
\* backquote, the third quote, is written "bq"
Openers == {"(", "[", "{", "<"}
Closers == {")", "]", "}", ">"}
Quotes == {"'", "\"", "bq"}

\* depth, in_str, str_c and esc before the loop
ScanStart == [depth |-> 0, in_str |-> FALSE, str_c |-> "", esc |-> FALSE]

\* a literal that a backslash does not escape anything in
LiteralStepNoEscape(st, c) ==
    IF c = st.str_c THEN [st EXCEPT !.in_str = FALSE] ELSE st

\* the branch `if in_str:` of both loops
LiteralStep(st, c) ==
    IF st.esc THEN [st EXCEPT !.esc = FALSE]
    ELSE IF c = st.str_c THEN [st EXCEPT !.in_str = FALSE]
    ELSE IF c = "\\" THEN [st EXCEPT !.esc = TRUE]
    ELSE st

\* max(depth - 1, 0)
Shallower(st) == [st EXCEPT !.depth = IF @ > 0 THEN @ - 1 ELSE 0]

RECURSIVE ParenLoop(_, _, _, _)
\* the loop of separate_paren_prefix from character i on (sig without its
\* first character), and the return after the loop
ParenLoop(sig, close, i, st) ==
    IF i > Len(sig) THEN <<Strip(sig), <<>>>>
    ELSE LET c == sig[i]
         IN IF st.in_str THEN ParenLoop(sig, close, i + 1, LiteralStep(st, c))
            ELSE IF c \in Openers
            THEN ParenLoop(sig, close, i + 1, [st EXCEPT !.depth = @ + 1])
            ELSE IF st.depth = 0 /\ <<c>> = close
            THEN <<Strip(SubSeq(sig, 1, i - 1)), Strip(SubSeq(sig, i + 1, Len(sig)))>>
            ELSE IF c \in Closers THEN ParenLoop(sig, close, i + 1, Shallower(st))
            ELSE IF c \in Quotes
            THEN ParenLoop(sig, close, i + 1, [st EXCEPT !.in_str = TRUE, !.str_c = c])
            ELSE ParenLoop(sig, close, i + 1, st)

\* separate_paren_prefix(sig, parens)
SeparateParenPrefix(sig, parens) ==
    IF ~StartsWith(sig, parens[1]) THEN <<<<>>, Strip(sig)>>
    ELSE ParenLoop(Tail(sig), parens[2], 1, ScanStart)

\* sig[from:to] of separate_sig, stripped if strip
Elem(sig, from, to, strip) ==
    IF strip THEN Strip(SubSeq(sig, from, to)) ELSE SubSeq(sig, from, to)

\* an element is appended whatever it is
AppendedAlways(res, elem) == Append(res, elem)

\* if elem and not elem.isspace(): res.append(elem)
Appended(res, elem) ==
    IF elem # <<>> /\ ~(\A i \in DOMAIN elem : IsSpace(elem[i]))
    THEN Append(res, elem) ELSE res

RECURSIVE SigLoop(_, _, _, _, _, _, _)
\* the loop of separate_sig from character i on, and the part after the
\* loop; pos is the first character of the element being read
SigLoop(sig, sep, strip, i, st, pos, res) ==
    IF i > Len(sig)
    THEN IF pos <= Len(sig) THEN Appended(res, Elem(sig, pos, Len(sig), strip)) ELSE res
    ELSE LET c == sig[i]
         IN IF st.in_str THEN SigLoop(sig, sep, strip, i + 1, LiteralStep(st, c), pos, res)
            ELSE IF c \in Openers
            THEN SigLoop(sig, sep, strip, i + 1, [st EXCEPT !.depth = @ + 1], pos, res)
            ELSE IF c \in Closers
            THEN SigLoop(sig, sep, strip, i + 1, Shallower(st), pos, res)
            ELSE IF c \in Quotes
            THEN SigLoop(sig, sep, strip, i + 1,
                         [st EXCEPT !.in_str = TRUE, !.str_c = c], pos, res)
            ELSE IF st.depth = 0 /\ <<c>> = sep
            THEN SigLoop(sig, sep, strip, i + 1, st, i + 1,
                         Appended(res, Elem(sig, pos, i - 1, strip)))
            ELSE SigLoop(sig, sep, strip, i + 1, st, pos, res)

\* separate_sig(sig, sep, strip)
SeparateSig(sig, sep, strip) == SigLoop(sig, sep, strip, 1, ScanStart, 1, <<>>)

\* \w for the ASCII characters
IsWord(c) ==
    c \in { "a", "b", "c", "d", "e", "f", "g", "h", "i", "j", "k", "l", "m",
            "n", "o", "p", "q", "r", "s", "t", "u", "v", "w", "x", "y", "z",
            "A", "B", "C", "D", "E", "F", "G", "H", "I", "J", "K", "L", "M",
            "N", "O", "P", "Q", "R", "S", "T", "U", "V", "W", "X", "Y", "Z",
            "0", "1", "2", "3", "4", "5", "6", "7", "8", "9", "_" }

\* a pattern that any segment with a character other than spaces matches
ParamNameMatchesAny(s) == Strip(s) # <<>>

\* _PARAM_NAME_RE.match(s)
ParamNameMatches(s) ==
    /\ Strip(s) # <<>>
    /\ \A i \in DOMAIN Strip(s) : IsWord(Strip(s)[i]) \/ Strip(s)[i] = "-"

RECURSIVE JoinColon(_)
\* ":".join(elems)
JoinColon(elems) ==
    IF elems = <<>> THEN <<>>
    ELSE IF Len(elems) = 1 THEN elems[1]
    ELSE elems[1] \o <<":">> \o JoinColon(Tail(elems))

\* what one element adds to res in parse_types
ParsedElem(elem, parsingFunctionParams) ==
    LET elems == SeparateSig(elem, <<":">>, FALSE)
    IN IF elems = <<>> THEN <<>>
       ELSE IF \/ (Len(elems) = 1 /\ ~parsingFunctionParams)
               \/ ~ParamNameMatches(elems[1])
       THEN << <<<<>>, Strip(JoinColon(elems))>> >>
       ELSE << <<Strip(elems[1]), Strip(JoinColon(Tail(elems)))>> >>

RECURSIVE ParsedElems(_, _)
ParsedElems(elems, parsingFunctionParams) ==
    IF elems = <<>> THEN <<>>
    ELSE ParsedElem(Head(elems), parsingFunctionParams)
         \o ParsedElems(Tail(elems), parsingFunctionParams)

\* parse_types(sig, parsingFunctionParams)
ParseTypes(sig, parsingFunctionParams) ==
    ParsedElems(SeparateSig(sig, <<",">>, TRUE), parsingFunctionParams)

----------------------------------------------------------------------------
(* lua_ls.py: versions to skip *)

\* (0,) * n
Zeros(n) == [i \in 1 .. n |-> 0]

\* a version that is left as short as it is
PaddedNot(version, skip_version) == version

\* version after `if len(version) < len(skip_version): version += ...`
Padded(version, skip_version) ==
    IF Len(version) < Len(skip_version)
    THEN version \o Zeros(Len(skip_version) - Len(version))
    ELSE version

\* version[:n]
Prefix(version, n) == SubSeq(version, 1, IF n < Len(version) THEN n ELSE Len(version))

RECURSIVE ShouldSkipFrom(_, _, _)
\* the loop of _should_skip from skip_versions[i] on; version is rebound by
\* the padding and stays so for the later iterations
ShouldSkipFrom(version, skip_versions, i) ==
    IF i > Len(skip_versions) THEN FALSE
    ELSE LET skip_version == skip_versions[i]
             padded == Padded(version, skip_version)
         IN IF skip_version = Prefix(padded, Len(skip_version)) THEN TRUE
            ELSE ShouldSkipFrom(padded, skip_versions, i + 1)

\* _should_skip(version, skip_versions)
ShouldSkip(version, skip_versions) == ShouldSkipFrom(version, skip_versions, 1)

----------------------------------------------------------------------------
(* SpecKind: kind and render of a record with a doctype *)

\* the values of !doctype: those get_kind knows, the empty value, and others
Doctypes ==
    { "module", "table", "data", "const", "attribute", "function", "method",
      "classmethod", "staticmethod", "class", "alias", "enum", "", "None", "type" }

\* a record of class type whose doctype is none, comes from a !doctype line
\* of the docstring, from inferred_doctype, or from both (the line wins)
WithDoctype(type, how, d) ==
    [Leaf(type, FALSE, None,
          IF how \in {"line", "both"}
          THEN Some(<<TextLine("d"), DocLine("doctype", "!doctype", d, "")>>)
          ELSE Some(DocShort))
     EXCEPT !.inferred_doctype = CASE how = "inferred" -> Some(d)
                                   [] how = "both" -> Some("data")
                                   [] OTHER -> None]

KindArgs ==
    { [obj |-> WithDoctype(t, how, d),
       given |-> IF how = "none" THEN None ELSE Some(d),
       kind_override |-> ov[1], doctype_override |-> ov[2]] :
        t \in Types, how \in {"none", "line", "inferred", "both"}, d \in Doctypes,
        ov \in {<<None, None>>, <<Some("data"), Some("const")>>,
                <<Some("function"), Some("method")>>} }

InitKind ==
    /\ LsIdle
    /\ TreeIdle
    /\ MergeIdle
    /\ BasesIdle
    /\ IterIdle
    /\ fnArgs \in KindArgs
    /\ fnOut = None

\* root.kind is read and render(root, name, ...) is called
ResolveKind ==
    /\ fnOut = None
    /\ fnArgs \in KindArgs
    /\ fnOut' = Some([kind |-> Kind(fnArgs.obj),
                      render |-> Render(fnArgs.obj, fnArgs.kind_override,
                                        fnArgs.doctype_override)])
    /\ UNCHANGED fnArgs
    /\ UNCHANGED <<treeVars, mergeVars, basesVars, iterVars, lsVars>>

NextKind == ResolveKind

SpecKind == InitKind /\ [][NextKind]_vars

----------------------------------------------------------------------------
(* SpecParen: separate_paren_prefix on short signatures *)

MaxParen == 5

\* the pairs of delimiters of the calls in domain.py
ParenPairs == {<<<<"(">>, <<")">>>>, <<<<"[">>, <<"]">>>>}

\* the two delimiters, a closer of another pair, a quote, the backslash, a
\* letter and the space
ParenChars(parens) ==
    {parens[1][1], parens[2][1], IF parens[2] = <<")">> THEN "]" ELSE ")",
     "'", "\\", "a", " "}

\* the default delimiters on all strings, the others on the shorter ones
ParenLens(parens) ==
    IF parens[1] = <<"(">> THEN 0 .. MaxParen ELSE 0 .. (MaxParen - 2)

InitParen ==
    /\ LsIdle
    /\ TreeIdle
    /\ MergeIdle
    /\ BasesIdle
    /\ IterIdle
    /\ \E parens \in ParenPairs : \E n \in ParenLens(parens) :
         \E sig \in [1 .. n -> ParenChars(parens)] :
            fnArgs = [sig |-> sig, parens |-> parens]
    /\ fnOut = None

SeparateParenPrefixCall ==
    /\ fnOut = None
    /\ fnOut' = Some(SeparateParenPrefix(fnArgs.sig, fnArgs.parens))
    /\ UNCHANGED fnArgs
    /\ UNCHANGED <<treeVars, mergeVars, basesVars, iterVars, lsVars>>

NextParen == SeparateParenPrefixCall

SpecParen == InitParen /\ [][NextParen]_vars

----------------------------------------------------------------------------
(* SpecSep: separate_sig on short signatures *)

MaxSep == 5

\* the separators of the calls: the default one and that of names
Seps == {<<",">>, <<".">>}

\* the separator, a pair of brackets, a quote, the backslash, a letter and
\* the space
SepChars(sep) == {sep[1], "(", ")", "'", "\\", "a", " "}

\* the default separator on all strings, the other on the shorter ones
SepLens(sep) == IF sep = <<",">> THEN 0 .. MaxSep ELSE 0 .. (MaxSep - 2)

InitSep ==
    /\ LsIdle
    /\ TreeIdle
    /\ MergeIdle
    /\ BasesIdle
    /\ IterIdle
    /\ \E sep \in Seps : \E n \in SepLens(sep) :
         \E sig \in [1 .. n -> SepChars(sep)] :
            fnArgs = [sig |-> sig, sep |-> sep]
    /\ fnOut = None

SeparateSigCall ==
    /\ fnOut = None
    /\ fnOut' = Some(SeparateSig(fnArgs.sig, fnArgs.sep, TRUE))
    /\ UNCHANGED fnArgs
    /\ UNCHANGED <<treeVars, mergeVars, basesVars, iterVars, lsVars>>

NextSep == SeparateSigCall

SpecSep == InitSep /\ [][NextSep]_vars

----------------------------------------------------------------------------
(* SpecTypes: parse_types on short signatures *)

MaxTypes == 5

\* the comma, the colon, a pair of brackets, the characters of names and of
\* dotted names, and the space
TypesChars == {",", ":", "(", ")", "a", "-", ".", " "}

\* parse_types(sig) on all strings, parse_types(sig, True) on the shorter ones
TypesLens(parsingFunctionParams) ==
    IF parsingFunctionParams THEN 0 .. (MaxTypes - 2) ELSE 0 .. MaxTypes

InitTypes ==
    /\ LsIdle
    /\ TreeIdle
    /\ MergeIdle
    /\ BasesIdle
    /\ IterIdle
    /\ \E params \in BOOLEAN : \E n \in TypesLens(params) :
         \E sig \in [1 .. n -> TypesChars] :
            fnArgs = [sig |-> sig, parsingFunctionParams |-> params]
    /\ fnOut = None

ParseTypesCall ==
    /\ fnOut = None
    /\ fnOut' = Some(ParseTypes(fnArgs.sig, fnArgs.parsingFunctionParams))
    /\ UNCHANGED fnArgs
    /\ UNCHANGED <<treeVars, mergeVars, basesVars, iterVars, lsVars>>

NextTypes == ParseTypesCall

SpecTypes == InitTypes /\ [][NextTypes]_vars

----------------------------------------------------------------------------
(* SpecSkip: _should_skip on short versions *)

MaxVersion == 2
MaxSkips == 2

\* the components of a version
Components == {0, 1}

\* the tuples of at most n components
Versions(n) == UNION {[1 .. k -> Components] : k \in 0 .. n}

\* a version, and skip tuples that may be longer than it by one component
InitSkip ==
    /\ LsIdle
    /\ TreeIdle
    /\ MergeIdle
    /\ BasesIdle
    /\ IterIdle
    /\ \E version \in Versions(MaxVersion) : \E k \in 0 .. MaxSkips :
         \E skip_versions \in [1 .. k -> Versions(MaxVersion + 1)] :
            fnArgs = [version |-> version, skip_versions |-> skip_versions]
    /\ fnOut = None

ShouldSkipCall ==
    /\ fnOut = None
    /\ fnOut' = Some(ShouldSkip(fnArgs.version, fnArgs.skip_versions))
    /\ UNCHANGED fnArgs
    /\ UNCHANGED <<treeVars, mergeVars, basesVars, iterVars, lsVars>>

NextSkip == ShouldSkipCall

SpecSkip == InitSkip /\ [][NextSkip]_vars

----------------------------------------------------------------------------
(* SpecPath: find_path on chains of nested records *)

MaxDepth == 3

\* the names of the records of a chain, outermost first
ChainNames == << <<"a">>, <<"b">>, <<"c">>, <<"d">> >>

\* a module, a class, a variable that !doctype makes a module, and a function
\* whose !doctype leaves it without kind
ChainRecords ==
    { Member(FALSE, "Object", None, None, FileA, None),
      Member(FALSE, "Class", Some(0), Some(DocShort), FileA, None),
      Member(FALSE, "Data", Some(0), Some(DocModule), FileA, None),
      Member(FALSE, "Function", Some(0), Some(DocClass), FileA, None) }

RECURSIVE Chain(_, _)
\* the definition of records[i] with records[i + 1] as its child, and so on
Chain(records, i) ==
    IF i = Len(records) THEN records[i]
    ELSE WithKids(records[i], {FileA},
                  <<Entry(ChainNames[i + 1], Chain(records, i + 1))>>)

\* the tree after add of a chain of MaxDepth records
ChainTree(records) ==
    Built(NewObject("Object", FALSE), << <<ChainNames[1], Chain(records, 1)>> >>)

\* the paths into a chain, and paths that find nothing
ChainPaths ==
    {JoinDot(SubSeq(ChainNames, 1, n)) : n \in 1 .. MaxDepth}
    \cup {<<>>, <<"b">>, <<"a", ".", "a">>}

InitPath ==
    /\ LsIdle
    /\ \E records \in [1 .. MaxDepth -> ChainRecords] : root = ChainTree(records)
    /\ raised = FALSE
    /\ nadds = 0
    /\ added = {}
    /\ contrib = {}
    /\ MergeIdle
    /\ BasesIdle
    /\ IterIdle
    /\ \E path \in ChainPaths : fnArgs = [path |-> path]
    /\ fnOut = None

FindPathCall ==
    /\ fnOut = None
    /\ fnOut' = Some(FindPath(root, fnArgs.path))
    /\ UNCHANGED fnArgs
    /\ UNCHANGED <<treeVars, mergeVars, basesVars, iterVars, lsVars>>

NextPath == FindPathCall

SpecPath == InitPath /\ [][NextPath]_vars

----------------------------------------------------------------------------
(* SpecLs: builds that call run_lua_ls, between changes of the project *)

\* the values of project_directories, sorted
ProjectDirs == {<<DirD1>>, <<DirD2>>, <<DirD1, DirD2>>}

Mtimes == 0 .. MaxMtime

NoFn == fnArgs = <<>> /\ fnOut = None

InitLs ==
    /\ TreeIdle
    /\ MergeIdle
    /\ BasesIdle
    /\ IterIdle
    /\ NoFn
    /\ data = None
    /\ disk \in [DiskFiles -> {None} \cup {Some(t) : t \in Mtimes}]
    /\ dirs \in ProjectDirs
    /\ exits = [d \in {DirD1, DirD2} |-> 0]
    /\ invocations = [d \in {DirD1, DirD2} |-> 0]
    /\ outcome = "idle"
    /\ settled = FALSE

\* run_lua_ls(app), the language server exiting with codes[dir] on dir
RunLuaLs(codes) ==
    /\ exits' = codes
    /\ IF ~Modified(data, disk, dirs)
       THEN /\ outcome' = "returned"
            /\ invocations' = [d \in {DirD1, DirD2} |-> 0]
            /\ UNCHANGED data
       ELSE LET run == RunDirs(dirs, codes, 1, [d \in {DirD1, DirD2} |-> 0])
            IN /\ invocations' = run.runs
               /\ IF run.raised
                  THEN outcome' = "raised" /\ UNCHANGED data
                  ELSE outcome' = "rebuilt" /\ data' = Installed(disk, dirs)
    /\ settled' = (settled \/ outcome' = "rebuilt")
    /\ UNCHANGED <<disk, dirs>>
    /\ UNCHANGED <<treeVars, mergeVars, basesVars, iterVars, fnVars>>

\* between two builds a file is written, with any timestamp
WriteFile(f, t) ==
    /\ disk[f] # Some(t)
    /\ disk' = [disk EXCEPT ![f] = Some(t)]
    /\ outcome' = "idle"
    /\ settled' = FALSE
    /\ UNCHANGED <<data, dirs, exits, invocations>>
    /\ UNCHANGED <<treeVars, mergeVars, basesVars, iterVars, fnVars>>

\* between two builds a file is removed
RemoveFile(f) ==
    /\ disk[f] # None
    /\ disk' = [disk EXCEPT ![f] = None]
    /\ outcome' = "idle"
    /\ settled' = FALSE
    /\ UNCHANGED <<data, dirs, exits, invocations>>
    /\ UNCHANGED <<treeVars, mergeVars, basesVars, iterVars, fnVars>>

\* between two builds lua_ls_project_directories is changed
Configure(directories) ==
    /\ dirs # directories
    /\ dirs' = directories
    /\ outcome' = "idle"
    /\ settled' = FALSE
    /\ UNCHANGED <<data, disk, exits, invocations>>
    /\ UNCHANGED <<treeVars, mergeVars, basesVars, iterVars, fnVars>>

NextLs ==
    \/ \E codes \in [{DirD1, DirD2} -> {0, 1}] : RunLuaLs(codes)
    \/ \E f \in DiskFiles, t \in Mtimes : WriteFile(f, t)
    \/ \E f \in DiskFiles : RemoveFile(f)
    \/ \E directories \in ProjectDirs : Configure(directories)

SpecLs == InitLs /\ [][NextLs]_vars

----------------------------------------------------------------------------
(* Claims about the construction *)

\* C4: after any sequence of add calls, also of calls that materialize
\* intermediate containers, the record at a path is foreign exactly when
\* every raw definition added at that path was foreign.
C4_ForeignIsConjunctionOfDefinitions ==
    \A p \in PathsBelow(root, <<>>) :
        DefsAt(p) # {} =>
            (RecordAt(p).is_foreign <=> \A d \in DefsAt(p) : d[2])

\* C7: after any sequence of add and merge operations, the files of the
\* record at a path are the union of the files of every raw definition that
\* was merged into it.
C7_FilesAreUnionOfDefinitions ==
    \A p \in PathsBelow(root, <<>>) :
        RecordAt(p).files = UNION {d[3] : d \in DefsAt(p)}

C7_Witness ==
    \E p \in PathsBelow(root, <<>>) :
        /\ Cardinality(DefsAt(p)) >= 2
        /\ RecordAt(p).files = {FileA, FileB}
        /\ RecordAt(p).children # <<>>

\* the parts of a find_path result that are not empty, joined by "."
Reconstructed(r) ==
    JoinDot(SelectSeq(<<r.modname, r.classname, r.name>>, LAMBDA part : part # <<>>))

RoundTrips(path) ==
    /\ Find(root, path) # None
    /\ FindPath(root, path) # None
    /\ Reconstructed(Val(FindPath(root, path))) = path

\* C8, as stated: every path that was added is found by find, and the parts
\* that find_path returns for it, joined by ".", give the path back.
C8_EveryAddedPathRoundTrips ==
    \A path \in added : RoundTrips(path)

\* C8, amended: the same, for the added paths that have no empty segment.
C8_PathsWithoutEmptySegmentRoundTrip ==
    \A path \in added :
        (\A i \in DOMAIN SplitDot(path) : SplitDot(path)[i] # <<>>) => RoundTrips(path)

C8_Witness ==
    /\ <<"a", ".", "b", ".", "a">> \in added
    /\ LET r == Val(FindPath(root, <<"a", ".", "b", ".", "a">>))
       IN r.modname = <<"a">> /\ r.classname = <<"b">> /\ r.name = <<"a">>
    /\ RoundTrips(<<"a", ".", "b", ".", "a">>)

----------------------------------------------------------------------------
(* Claims about merge_objects *)

\* the order of claim C1 puts x strictly before y
BeforeInClaimedOrder(x, y) ==
    \/ ~x.is_foreign /\ y.is_foreign
    \/ /\ x.is_foreign = y.is_foreign
       /\ priority(x.type) > priority(y.type)
    \/ /\ x.is_foreign = y.is_foreign
       /\ priority(x.type) = priority(y.type)
       /\ x.line # None /\ y.line # None
       /\ Val(x.line) < Val(y.line)

\* C1: merge_objects(a, b) keeps as base the first of a and b in the order
\* non-foreign before foreign, then higher priority first, then smaller line
\* first; when exactly one of them is foreign the base is the non-foreign one.
C1_BaseIsFirstInOrder ==
    (mpc = "done" /\ ~mab.raised) =>
        /\ BeforeInClaimedOrder(ma, mb) => mab.kept = 1
        /\ BeforeInClaimedOrder(mb, ma) => mab.kept = 2

\* C2: merge_objects returns a merged record, without raising, for every pair
\* of records, whether or not each of them has a line number.
C2_MergeNeverRaises ==
    mpc = "done" => ~mab.raised

\* C3: whenever merge_objects(a, b) returns, the is_foreign of its result is
\* (a.is_foreign and b.is_foreign), on the values before the merge.
C3_ForeignIsConjunction ==
    (mpc = "done" /\ ~mab.raised) =>
        mab.obj.is_foreign = (ma.is_foreign /\ mb.is_foreign)

C3_Witness ==
    /\ mpc = "done" /\ ~mab.raised
    /\ ma.is_foreign /\ ~mb.is_foreign
    /\ ma.children # <<>> /\ mb.children # <<>>
    /\ ~mab.obj.is_foreign

FlagsOf(o) == <<o.is_deprecated, o.is_async, o.is_nodiscard>>

\* C5: for any two records a and b, is_deprecated, is_async and is_nodiscard
\* of merge_objects(a, b) equal those of merge_objects(b, a), and equal the
\* logical or of the flag of a and of b.
C5_FlagsAreCommutativeOr ==
    mpc = "done" =>
        /\ ~mab.raised /\ ~mba.raised
        /\ FlagsOf(mab.obj) = FlagsOf(mba.obj)
        /\ FlagsOf(mab.obj) = << ma.is_deprecated \/ mb.is_deprecated,
                                 ma.is_async \/ mb.is_async,
                                 ma.is_nodiscard \/ mb.is_nodiscard >>

\* what C5 says of the pairs on which both merges return
C5_FlagsWhereMergeReturns ==
    (mpc = "done" /\ ~mab.raised /\ ~mba.raised) =>
        /\ FlagsOf(mab.obj) = FlagsOf(mba.obj)
        /\ FlagsOf(mab.obj) = << ma.is_deprecated \/ mb.is_deprecated,
                                 ma.is_async \/ mb.is_async,
                                 ma.is_nodiscard \/ mb.is_nodiscard >>

RECURSIVE Equivalent(_, _)
\* same files, same docstring, same child names, equivalent children
Equivalent(x, y) ==
    /\ x.files = y.files
    /\ x.docstring = y.docstring
    /\ ChildNames(x) = ChildNames(y)
    /\ Len(x.children) = Len(y.children)
    /\ \A n \in ChildNames(x) : Equivalent(GetChild(x, n), GetChild(y, n))

\* C6: merging a record with a structurally identical copy of itself gives a
\* record equivalent to it: same files, same docstring, same child names,
\* and recursively equivalent children.
C6_MergeWithCopyIsIdempotent ==
    (mpc = "done" /\ ma = mb) =>
        /\ ~mab.raised
        /\ Equivalent(mab.obj, ma)

C6_Witness ==
    /\ mpc = "done" /\ ma = mb /\ ~mab.raised
    /\ ma.files # {} /\ DocTruthy(ma.docstring)
    /\ \E i \in DOMAIN ma.children : ma.children[i].obj.children # <<>>
    /\ Equivalent(mab.obj, ma)

----------------------------------------------------------------------------
(* Claims about find_all_bases *)

\* C9: on every tree and for every class C, also when the bases lists hold
\* cycles or self-references, a call of find_all_bases(C) that has started
\* returns, and the list it returns never contains C itself.
C9_FindAllBasesTerminatesWithoutSelf ==
    /\ (fbpc = "loop") ~> (fbpc = "idle")
    /\ [](fbRet # None => fbObj \notin Range(Val(fbRet)))

\* a call has returned a non-empty list for a class that is not among its own
\* bases but was met again through the bases of another class
C9_Witness ==
    /\ fbpc = "idle"
    /\ fbRet # None
    /\ Val(fbRet) # <<>>
    /\ fbObj \in fbSeen
    /\ fbObj \notin Range(Val(Find(root, fbObj)).bases)

----------------------------------------------------------------------------
(* Claims about _iter_children *)

\* C10: for a fixed obj, parent, option map and tree, successive calls of
\* _iter_children yield the same (name, record) pairs in the same order: what
\* the first call leaves behind does not change what the next call yields.
C10_SuccessiveCallsAgree ==
    \A i \in DOMAIN itResults :
        /\ ~itResults[i].raised
        /\ itResults[i].items = itResults[1].items

\* a second call has returned after a first one that spliced globals, filled
\* the bases cache and the parse caches, and left out at least one child
C10_Witness ==
    /\ Len(itResults) >= 2
    /\ Len(itResults[2].items) >= 2
    /\ \E i \in DOMAIN itResults[2].items : itResults[2].items[i][2] = <<"g">>
    /\ DOMAIN fbCache # {}
    /\ Val(Find(root, itArgs.obj)).parsed # None
    /\ Len(itResults[2].items) < Len(Val(Find(root, itArgs.obj)).children)

\* C11: a child whose name is not in the exclude list is yielded exactly when
\* its name is in an explicit include list, or it is not a top-level global
\* and passes every category gate: not undocumented unless undoc-members, not
\* private, protected or package unless the matching flag, no double
\* underscore name unless special-members, not inherited unless
\* inherited-members.
C11_YieldedIffIncludedOrGated ==
    \A k \in DOMAIN itResults :
        LET obj == Val(Find(root, itArgs.obj))
            op == itArgs.options
            children == Items(obj, itArgs.obj)
                        \o SplicedGlobals(root, obj, op, itArgs.include_globals)
            inherited_names == InheritedNames(root, fbCache, itArgs.parent)
            Has(child, name) == \/ child.visibility = Some(name)
                                \/ name \in OptNames(Parsed(child).options)
            PassesGates(e) ==
                /\ DocTruthy(Parsed(e.obj).docstring) \/ op.undoc_members.all
                /\ ~Has(e.obj, "private") \/ op.private_members.all
                /\ ~Has(e.obj, "protected") \/ op.protected_members.all
                /\ ~Has(e.obj, "package") \/ op.package_members.all
                /\ ~StartsWith(e.name, <<"_", "_">>) \/ op.special_members.all
                /\ e.name \notin inherited_names \/ op.inherited_members.all
        IN \A i \in DOMAIN children :
              children[i].name \notin Exclude(op) =>
                 ( (<<children[i].name, children[i].ref>> \in Range(itResults[k].items))
                   <=> \/ children[i].name \in Include(op)
                       \/ ~children[i].obj.is_toplevel /\ PassesGates(children[i]) )

----------------------------------------------------------------------------
(* Claims about kind *)

\* C12: for every class of records, a doctype outside the set the class is
\* compatible with yields the kind None, never a Kind, and render raises an
\* error for the record; a compatible doctype yields the Kind it names, and
\* no doctype yields the Kind of the class.
C12_IncompatibleDoctypeIsNoKind ==
    fnOut # None /\ fnArgs \in KindArgs =>
        LET type == fnArgs.obj.type
            Structural == [Object |-> "module", Data |-> "data", Table |-> "table",
                           Function |-> "function", Class |-> "class",
                           Alias |-> "alias", Enum |-> "enum"]
            Compatible ==
                IF type = "Function"
                THEN {"function", "method", "classmethod", "staticmethod"}
                ELSE {"module", "table", "data", "const", "attribute"}
                     \cup (IF type \in {"Class", "Alias", "Enum"}
                           THEN {Structural[type]} ELSE {})
            Named(d) == CASE d \in {"const", "attribute"} -> "data"
                          [] d \in {"method", "classmethod", "staticmethod"} -> "function"
                          [] OTHER -> d
            out == Val(fnOut)
        IN IF fnArgs.given = None THEN out.kind = Some(Structural[type])
           ELSE IF Val(fnArgs.given) \in Compatible
           THEN out.kind = Some(Named(Val(fnArgs.given)))
           ELSE out.kind = None /\ out.render = "error"

\* a Function whose docstring says !doctype class has no kind, and render
\* has raised
C12_Witness ==
    /\ fnOut # None
    /\ fnArgs \in KindArgs
    /\ fnArgs.obj.type = "Function"
    /\ fnArgs.given = Some("class")
    /\ fnArgs.obj.inferred_doctype = None
    /\ Val(fnOut).kind = None
    /\ Val(fnOut).render = "error"

----------------------------------------------------------------------------
(* Claims about the splitting of signatures *)

RECURSIVE Nesting(_, _)
\* where the first n characters of s leave a reader: the nesting depth (the
\* brackets opened and not closed; a closer with nothing open closes
\* nothing), the quote of the literal it is in ("" outside literals), and
\* whether the next character is escaped
Nesting(s, n) ==
    IF n = 0 THEN [depth |-> 0, quote |-> "", escaped |-> FALSE]
    ELSE LET before == Nesting(s, n - 1)
             c == s[n]
         IN IF before.quote # ""
            THEN IF before.escaped THEN [before EXCEPT !.escaped = FALSE]
                 ELSE IF c = "\\" THEN [before EXCEPT !.escaped = TRUE]
                 ELSE IF c = before.quote THEN [before EXCEPT !.quote = ""]
                 ELSE before
            ELSE IF c \in {"'", "\"", "bq"} THEN [before EXCEPT !.quote = c]
            ELSE IF c \in {"(", "[", "{", "<"} THEN [before EXCEPT !.depth = @ + 1]
            ELSE IF c \in {")", "]", "}", ">"} /\ before.depth > 0
            THEN [before EXCEPT !.depth = @ - 1]
            ELSE before

\* character i of s is at nesting depth 0 and outside any literal
TopLevelAt(s, i) == Nesting(s, i - 1).depth = 0 /\ Nesting(s, i - 1).quote = ""

\* C13: if sig starts with the opening delimiter, separate_paren_prefix
\* returns the text between it and the first closing delimiter at nesting
\* depth 0 outside any literal, and the text after that delimiter, both
\* stripped; with no such closing delimiter it returns the remaining text
\* stripped and ''; if sig does not start with the opening delimiter it
\* returns '' and sig stripped.
C13_ParenPrefixEndsAtFirstTopLevelClose ==
    fnOut # None =>
        LET sig == fnArgs.sig
            body == Tail(sig)
            closing == {i \in DOMAIN body :
                            <<body[i]>> = fnArgs.parens[2] /\ TopLevelAt(body, i)}
            first == CHOOSE i \in closing : \A j \in closing : i <= j
        IN IF sig = <<>> \/ <<Head(sig)>> # fnArgs.parens[1]
           THEN Val(fnOut) = <<<<>>, Strip(sig)>>
           ELSE IF closing = {} THEN Val(fnOut) = <<Strip(body), <<>>>>
           ELSE Val(fnOut) = <<Strip(SubSeq(body, 1, first - 1)),
                               Strip(SubSeq(body, first + 1, Len(body)))>>

\* in ('a') a the closing delimiter inside the literal is passed over
C13_Witness ==
    /\ fnOut # None
    /\ fnArgs.sig = <<"(", "'", ")", "'", ")">>
    /\ Val(fnOut) = <<<<"'", ")", "'">>, <<>>>>

RECURSIVE Ascending(_)
\* the numbers of a set in increasing order
Ascending(ns) ==
    IF ns = {} THEN <<>>
    ELSE LET least == CHOOSE n \in ns : \A m \in ns : n <= m
         IN <<least>> \o Ascending(ns \ {least})

\* the pieces of s between the occurrences of the character sep that are at
\* nesting depth 0 and outside literals, in order
TopLevelPieces(s, sep) ==
    LET cuts == {i \in DOMAIN s : <<s[i]>> = sep /\ TopLevelAt(s, i)}
        starts == Ascending({1} \cup {i + 1 : i \in cuts})
        EndOf(a) == CHOOSE b \in cuts \cup {Len(s) + 1} :
                        b >= a /\ \A c \in cuts : c >= a => b <= c
    IN [k \in DOMAIN starts |-> SubSeq(s, starts[k], EndOf(starts[k]) - 1)]

\* C14: separate_sig(sig, sep) returns, in order, the pieces of sig between
\* the separators at nesting depth 0 outside literals, each stripped, without
\* the pieces that are empty or whitespace-only.
C14_SigSplitsAtTopLevelSeparators ==
    fnOut # None =>
        LET pieces == TopLevelPieces(fnArgs.sig, fnArgs.sep)
            stripped == [k \in DOMAIN pieces |-> Strip(pieces[k])]
        IN Val(fnOut) = SelectSeq(stripped, LAMBDA piece : piece # <<>>)

\* a,(,) is split at the first comma only
C14_Witness ==
    /\ fnOut # None
    /\ fnArgs.sig = <<"a", ",", "(", ",", ")">>
    /\ fnArgs.sep = <<",">>
    /\ Val(fnOut) = <<<<"a">>, <<"(", ",", ")">>>>

\* the top-level comma-separated elements of sig
Elements(sig) ==
    LET pieces == TopLevelPieces(sig, <<",">>)
    IN SelectSeq([k \in DOMAIN pieces |-> Strip(pieces[k])],
                 LAMBDA piece : piece # <<>>)

\* only word characters and '-', optionally surrounded by whitespace
BareIdentifier(seg) ==
    /\ Strip(seg) # <<>>
    /\ \A i \in DOMAIN Strip(seg) : IsWord(Strip(seg)[i]) \/ Strip(seg)[i] = "-"

\* the pair of an element: named when it has a top-level colon and its first
\* colon-segment is a bare identifier
PairOfElement(elem) ==
    LET segs == TopLevelPieces(elem, <<":">>)
    IN IF Len(segs) >= 2 /\ BareIdentifier(segs[1])
       THEN <<Strip(segs[1]), Strip(SubSeq(elem, Len(segs[1]) + 2, Len(elem)))>>
       ELSE <<<<>>, Strip(elem)>>

\* C15: parse_types(sig) returns one (name, type) pair per top-level
\* comma-separated element, in order: (first colon-segment stripped, rest
\* stripped) exactly when the element has a top-level colon and its first
\* colon-segment is a bare identifier, and ('', element stripped) otherwise.
C15_OnePairPerElement ==
    fnOut # None /\ ~fnArgs.parsingFunctionParams =>
        Val(fnOut) = [k \in DOMAIN Elements(fnArgs.sig) |->
                        PairOfElement(Elements(fnArgs.sig)[k])]

\* the colon-segments of an element that are not empty or whitespace-only
RemainingSegments(elem) ==
    SelectSeq(TopLevelPieces(elem, <<":">>), LAMBDA seg : Strip(seg) # <<>>)

\* the pair of an element of which some colon-segment remains: named when at
\* least two remain and the first is a bare identifier
PairOfRemaining(elem) ==
    LET segs == RemainingSegments(elem)
    IN IF Len(segs) >= 2 /\ BareIdentifier(segs[1])
       THEN <<Strip(segs[1]), Strip(JoinColon(Tail(segs)))>>
       ELSE <<<<>>, Strip(JoinColon(segs))>>

\* C15 as amended: parse_types(sig) returns, in order, one pair per top-level
\* comma-separated element of which a colon-segment remains once the empty
\* and whitespace-only segments are dropped: (first remaining segment
\* stripped, the others joined by ':' and stripped) exactly when at least two
\* remain and the first is a bare identifier, and ('', the remaining segments
\* joined by ':' and stripped) otherwise.
C15_OnePairPerElementWithSegments ==
    fnOut # None /\ ~fnArgs.parsingFunctionParams =>
        LET elems == SelectSeq(Elements(fnArgs.sig),
                               LAMBDA elem : RemainingSegments(elem) # <<>>)
        IN Val(fnOut) = [k \in DOMAIN elems |-> PairOfRemaining(elems[k])]

\* a:a,: has the named pair of a:a and nothing for the element :
C15_Witness ==
    /\ fnOut # None
    /\ ~fnArgs.parsingFunctionParams
    /\ fnArgs.sig = <<"a", ":", "a", ",", ":">>
    /\ Val(fnOut) = <<<<<<"a">>, <<"a">>>>>>

----------------------------------------------------------------------------
(* Claims about versions *)

\* C16: _should_skip(version, skip_versions) is true exactly when some skip
\* tuple equals the first components, as many as it has, of version padded
\* on the right with zeros; in particular it is false for the empty list.
C16_SkipsOnPaddedPrefix ==
    fnOut # None =>
        (Val(fnOut) <=>
            \E j \in DOMAIN fnArgs.skip_versions :
                LET skip == fnArgs.skip_versions[j]
                IN \A i \in DOMAIN skip :
                       skip[i] = IF i <= Len(fnArgs.version)
                                 THEN fnArgs.version[i] ELSE 0)

\* version (1, 0) is skipped for the skip tuple (1, 0, 0), after one that
\* does not match
C16_Witness ==
    /\ fnOut = Some(TRUE)
    /\ fnArgs.version = <<1, 0>>
    /\ fnArgs.skip_versions = <<<<1, 1>>, <<1, 0, 0>>>>

----------------------------------------------------------------------------
(* Claims about find_path *)

\* C17: of the segments of a path that find_path finds, those before the
\* first record whose kind is not Module are module context and all from
\* that record on are class context; the last segment is returned as the
\* name and is left out of the context it belongs to.
C17_ClassContextFromFirstNonModule ==
    fnOut # None /\ Val(fnOut) # None =>
        LET names == SplitDot(fnArgs.path)
            n == Len(names)
            RecordOf(i) == Val(Find(root, JoinDot(SubSeq(names, 1, i))))
            nonModule == {i \in 1 .. n : Kind(RecordOf(i)) # Some("module")}
            first == IF nonModule = {} THEN n + 1
                     ELSE CHOOSE i \in nonModule : \A j \in nonModule : i <= j
            found == Val(Val(fnOut))
        IN /\ found.obj = RecordOf(n)
           /\ found.name = names[n]
           /\ found.modname = JoinDot(SubSeq(names, 1, IF first > n THEN n - 1 ELSE first - 1))
           /\ found.classname = JoinDot(SubSeq(names, first, n - 1))

\* a.b.c with a a module, b a class and c of kind Module: c is class context
C17_Witness ==
    /\ fnOut # None
    /\ Val(fnOut) # None
    /\ fnArgs.path = <<"a", ".", "b", ".", "c">>
    /\ Kind(Val(Find(root, <<"a">>))) = Some("module")
    /\ Kind(Val(Find(root, <<"a", ".", "b">>))) = Some("class")
    /\ Kind(Val(Find(root, <<"a", ".", "b", ".", "c">>))) = Some("module")
    /\ Val(Val(fnOut)).modname = <<"a">>
    /\ Val(Val(fnOut)).classname = <<"b">>
    /\ Val(Val(fnOut)).name = <<"c">>

----------------------------------------------------------------------------
(* Claims about the cache of the tree *)

\* no tree is cached, the list of project directories differs from the
\* cached one, a tracked file no longer exists, the timestamp of a tracked
\* file differs from the snapshot, or a Lua file under a project directory
\* is not in the snapshot
Stale ==
    \/ data = None
    \/ Val(data).objtree_roots # dirs
    \/ \E f \in DOMAIN Val(data).objtree_paths : disk[f] = None
    \/ \E f \in DOMAIN Val(data).objtree_paths :
          disk[f] # None /\ Val(disk[f]) # Val(data).objtree_paths[f]
    \/ \E f \in {LuaA, LuaB} :
          /\ disk[f] # None
          /\ f \notin DOMAIN Val(data).objtree_paths
          /\ \E i \in DOMAIN dirs : StartsWith(f, dirs[i])

\* C18: a call of run_lua_ls on a stale cache runs the language server and,
\* unless the server fails, replaces tree, roots and snapshot by those of
\* the files as they are; a call on a cache that is not stale returns
\* without running the server and leaves tree, roots and snapshot as they
\* were.
C18_RebuildsExactlyWhenStale ==
    [][outcome' # "idle" =>
          IF Stale
          THEN /\ outcome' # "returned"
               /\ outcome' = "rebuilt" =>
                     /\ data' # None
                     /\ Val(data').objtree_roots = dirs
                     /\ \A f \in DOMAIN Val(data').objtree_paths :
                           Some(Val(data').objtree_paths[f]) = disk[f]
                     /\ \A f \in DOMAIN Val(data').objtree :
                           Some(Val(data').objtree[f]) = disk[f]
          ELSE /\ outcome' = "returned"
               /\ \A d \in DOMAIN invocations' : invocations'[d] = 0
               /\ data' = data]_vars

\* C19: when the language server exits with a non-zero code on a project
\* directory, it has been run once on that directory and on each directory
\* before it and not on those after it, run_lua_ls raises, and tree, roots
\* and snapshot are those of before the call.
C19_FailedRunLeavesCache ==
    [][(/\ outcome' # "idle"
        /\ \E i \in DOMAIN dirs : invocations'[dirs[i]] > 0 /\ exits'[dirs[i]] # 0)
       => LET failed == CHOOSE i \in DOMAIN dirs :
                            /\ exits'[dirs[i]] # 0
                            /\ \A j \in 1 .. (i - 1) : exits'[dirs[j]] = 0
          IN /\ outcome' = "raised"
             /\ data' = data
             /\ \A i \in DOMAIN dirs :
                   invocations'[dirs[i]] = IF i <= failed THEN 1 ELSE 0]_vars

\* with a tree cached, the server has failed on the second of two project
\* directories
C19_Witness ==
    /\ outcome = "raised"
    /\ data # None
    /\ dirs = <<DirD1, DirD2>>
    /\ exits[DirD1] = 0
    /\ exits[DirD2] = 1
    /\ invocations[DirD1] = 1
    /\ invocations[DirD2] = 1

----------------------------------------------------------------------------
(* Claims about the tree at rendering time *)

RECURSIVE WithoutCaches(_)
\* the fields of the records under o that the parsers set: o without the
\* values that the cached properties keep
WithoutCaches(o) ==
    [o EXCEPT !.parsed = None,
              !.children = [i \in DOMAIN o.children |->
                               [name |-> o.children[i].name,
                                obj |-> WithoutCaches(o.children[i].obj)]]]

\* C20: a call of _iter_children on the finished tree, with the calls of
\* find, kind, the parsed_ properties and find_all_bases that it makes,
\* leaves the children, files, flags, visibility, line, docstring,
\* inferred_options and inferred_doctype of every record as they were.
C20_RenderingLeavesRecords ==
    [][WithoutCaches(root') = WithoutCaches(root)]_vars

----------------------------------------------------------------------------
(* Claims about the order of the members *)

\* the record a yielded pair refers to
YieldedObj(item) == Val(Find(root, item[2]))

\* whether the key (file, or a value behind every file; line, or infinity;
\* name) of the pair x is not greater than that of the pair y
SourceOrdered(x, y) ==
    LET a == YieldedObj(x)
        b == YieldedObj(y)
        file == IF a.docstring_file = None
                THEN (IF b.docstring_file = None THEN 0 ELSE 1)
                ELSE IF b.docstring_file = None THEN -1
                ELSE StrCmp(Val(a.docstring_file), Val(b.docstring_file))
        line == IF a.line = None THEN (IF b.line = None THEN 0 ELSE 1)
                ELSE IF b.line = None THEN -1
                ELSE IntCmp(Val(a.line), Val(b.line))
    IN TupleCmp(<<file, line, StrCmp(x[1], y[1])>>) <= 0

\* C21: in the member order bysource, which is the default, the children are
\* yielded in ascending order of (file, or a value behind every file when
\* there is none; line, or infinity when there is none; name): of two
\* children of one file that both have a line, the one with the smaller line
\* comes first.
C21_BySourceAscending ==
    \A k \in DOMAIN itResults :
        LET items == itResults[k].items
        IN (/\ MemberOrder(Val(Find(root, itArgs.obj)), itArgs.options) = Some("bysource")
            /\ ~itArgs.fix_flaky)
           => \A i, j \in DOMAIN items : i < j => SourceOrdered(items[i], items[j])

\* whether the key (0 for a top-level global and 1 for any other child; rank
\* of the kind; name) of the pair x is not greater than that of the pair y
GroupOrdered(x, y) ==
    LET Rank(kind) == CASE kind \in {"table", "data"} -> 1
                        [] kind = "function" -> 2
                        [] kind = "class" -> 3
                        [] kind = "alias" -> 4
                        [] kind = "enum" -> 5
                        [] kind = "module" -> 6
        Key(o) == <<IF o.is_toplevel THEN 0 ELSE 1, Rank(Val(Kind(o)))>>
        a == Key(YieldedObj(x))
        b == Key(YieldedObj(y))
    IN TupleCmp(<<IntCmp(a[1], b[1]), IntCmp(a[2], b[2]), StrCmp(x[1], y[1])>>) <= 0

\* C22: in the member order groupwise the children that have a kind are
\* yielded in ascending order of (is not a top-level global, rank of the
\* kind, name) with the ranks Table = Data < Function < Class < Alias < Enum
\* < Module: every top-level global comes before every other child, the
\* children of one rank are together and sorted by name.
C22_GroupwiseAscending ==
    \A k \in DOMAIN itResults :
        LET items == itResults[k].items
        IN MemberOrder(Val(Find(root, itArgs.obj)), itArgs.options) = Some("groupwise")
           => \A i, j \in DOMAIN items :
                 (/\ i < j
                  /\ Kind(YieldedObj(items[i])) # None
                  /\ Kind(YieldedObj(items[j])) # None)
                 => GroupOrdered(items[i], items[j])

\* a groupwise call on the module M that yields a top-level global and two
\* members of M of different ranks
C22_Witness ==
    \E k \in DOMAIN itResults :
        LET items == itResults[k].items
        IN /\ MemberOrder(Val(Find(root, itArgs.obj)), itArgs.options) = Some("groupwise")
           /\ \E i, j, l \in DOMAIN items :
                 /\ YieldedObj(items[i]).is_toplevel
                 /\ ~YieldedObj(items[j]).is_toplevel
                 /\ ~YieldedObj(items[l]).is_toplevel
                 /\ Kind(YieldedObj(items[i])) # None
                 /\ Kind(YieldedObj(items[j])) = Some("function")
                 /\ Kind(YieldedObj(items[l])) \in {Some("data"), Some("table")}

----------------------------------------------------------------------------
(* Claims about the fields of a merged record *)

\* the argument of the finished merge_objects(ma, mb) that was kept as base,
\* and the other one
BaseOfMerge == IF mab.kept = 1 THEN ma ELSE mb
OtherOfMerge == IF mab.kept = 1 THEN mb ELSE ma

\* the value of the base if it is not null, else the value of the other
FirstNonNull(x, y) == IF x # None THEN x ELSE y

\* C23: after merge_objects each of visibility, line and docstring_file of
\* the result is the value of the base if that is not null and else the value
\* of the other record: a value of the base that is not null is never
\* replaced by null.
C23_ScalarsFirstNonNull ==
    (mpc = "done" /\ ~mab.raised) =>
        /\ mab.obj.visibility = FirstNonNull(BaseOfMerge.visibility, OtherOfMerge.visibility)
        /\ mab.obj.line = FirstNonNull(BaseOfMerge.line, OtherOfMerge.line)
        /\ mab.obj.docstring_file
              = FirstNonNull(BaseOfMerge.docstring_file, OtherOfMerge.docstring_file)
        /\ BaseOfMerge.docstring_file # None => mab.obj.docstring_file # None

----------------------------------------------------------------------------
(* Claims about the globals of a module *)

\* the pairs a call has added to the children of obj
AddedCandidates(k) ==
    LET own == Len(Val(Find(root, itArgs.obj)).children)
        all == itResults[k].candidates
    IN {all[i] : i \in (own + 1) .. Len(all)}

\* whether the call iterates a module with the option globals set
GlobalsWanted ==
    /\ Kind(Val(Find(root, itArgs.obj))) = Some("module")
    /\ OptionTruthy(itArgs.options.globals)

\* the top-level symbols whose files meet those of obj and whose names the
\* list of the option globals, if it is one, holds
OverlappingGlobals ==
    LET obj == Val(Find(root, itArgs.obj))
        globals == itArgs.options.globals
    IN {e \in Range(Items(root, <<>>)) :
            /\ obj.files \cap e.obj.files # {}
            /\ globals.all \/ e.name \in globals.names}

\* C24 as stated: when _iter_children iterates the children of a Module and
\* the option globals is set, the candidates hold in addition exactly the
\* top-level symbols of the root whose files meet the files of the module
\* (of the names of the list, if the option is one); when the option is not
\* set or the symbol is not a Module, no symbol of the root is added.
C24_SplicedAreOverlappingGlobals ==
    \A k \in DOMAIN itResults :
        itArgs.include_globals =>
            AddedCandidates(k)
                = IF GlobalsWanted THEN {<<e.name, e.ref>> : e \in OverlappingGlobals}
                  ELSE {}

\* C24 amended: the symbols added are exactly the top-level symbols of the
\* root that are not foreign, are not themselves modules and whose files
\* meet the files of the module (of the names of the list, if the option is
\* one); nothing is added when the option is not set, the symbol is not a
\* Module or the call is made with include_globals false.
C24_SplicedAreOwnNonModuleGlobals ==
    \A k \in DOMAIN itResults :
        AddedCandidates(k)
            = IF GlobalsWanted /\ itArgs.include_globals
              THEN {<<e.name, e.ref>> :
                      e \in {g \in OverlappingGlobals :
                                ~g.obj.is_foreign /\ Kind(g.obj) # Some("module")}}
              ELSE {}

\* a call on the module M with globals set that adds the global g of the
\* file of M while the root has a global of another file, a foreign global
\* and modules of the file of M
C24_Witness ==
    \E k \in DOMAIN itResults :
        /\ GlobalsWanted
        /\ itArgs.include_globals
        /\ <<<<"g">>, <<"g">>>> \in AddedCandidates(k)
        /\ \E e \in Range(Items(root, <<>>)) :
              e.obj.files \cap Val(Find(root, itArgs.obj)).files = {}
        /\ \E e \in OverlappingGlobals : e.obj.is_foreign
        /\ \E e \in OverlappingGlobals : Kind(e.obj) = Some("module")

----------------------------------------------------------------------------
(* Claims about is_toplevel *)

\* C25: after any sequence of calls of Parser.add, whatever their order and
\* whichever record was the base of each merge, a record of the tree has
\* is_toplevel exactly when it is a direct child of the root. The records
\* looked at are those at whose path a raw definition was added, which leaves
\* aside the containers add makes for the components of a path.
C25_ToplevelIffChildOfRoot ==
    \A p \in PathsBelow(root, <<>>) :
        DefsAt(p) # {} => (RecordAt(p).is_toplevel <=> Len(p) = 1)

----------------------------------------------------------------------------
(* Claims about the base of a merge *)

\* C26: the record merge_objects keeps as base does not depend on the order
\* of its arguments: whenever merge_objects(a, b) and merge_objects(b, a)
\* both return, the two calls keep the same record as base.
C26_BaseIndependentOfOrder ==
    (mpc = "done" /\ ~mab.raised /\ ~mba.raised) =>
        BaseOfMerge = (IF mba.kept = 1 THEN mb ELSE ma)

\* C27: when a definition that is not foreign and a foreign one, both with a
\* docstring that is not empty, are merged, in either order of the arguments,
\* the docstring of the merged record is that of the definition that is not
\* foreign.
C27_DocstringOfNonForeign ==
    (/\ mpc = "done"
     /\ ma.is_foreign # mb.is_foreign
     /\ DocTruthy(ma.docstring)
     /\ DocTruthy(mb.docstring)) =>
        LET own == IF ma.is_foreign THEN mb ELSE ma
        IN /\ ~mab.raised => mab.obj.docstring = own.docstring
           /\ ~mba.raised => mba.obj.docstring = own.docstring

----------------------------------------------------------------------------
(* SpecOptions: parsed_options of a record that EmmyLuaParser filled in *)

MaxTags == 2

\* a tag of tag_content; content is the stripped text as its words, the
\* second word being all that follows the first
Tag(tag_name, content) == [tag_name |-> tag_name, content |-> content]

Tags ==
    { Tag("see", <<"s">>), Tag("doc", <<>>), Tag("doc", <<"private">>),
      Tag("doc", <<"private", "x">>), Tag("doc", <<"protected">>),
      Tag("doctype", <<"class">>) }

RECURSIVE SetTags(_, _)
\* the loop of _set_common over tag_content
SetTags(res, tags) ==
    IF tags = <<>> THEN res
    ELSE LET tag == Head(tags)
             next ==
                CASE tag.tag_name = "see" ->
                        [res EXCEPT !.see = Append(res.see, tag.content[1])]
                  [] tag.tag_name = "doc" ->
                        IF tag.content = <<>> THEN res
                        ELSE [res EXCEPT !.inferred_options =
                                DictUpdate(res.inferred_options,
                                           <<[name |-> tag.content[1],
                                              value |-> IF Len(tag.content) = 1 THEN ""
                                                        ELSE tag.content[2]]>>)]
                  [] tag.tag_name = "doctype" ->
                        [res EXCEPT !.inferred_doctype = Some(tag.content[1])]
                  [] OTHER -> res
         IN SetTags(next, Tail(tags))

\* EmmyLuaParser._set_common(res, data) for data without flags: description,
\* visibility and tag_content
SetCommon(res, description, visibility, tags) ==
    SetTags([res EXCEPT !.docstring = description, !.visibility = visibility], tags)

\* the descriptions: none, the empty one, and some with and without !doc lines
Descriptions ==
    { None, Some(<<>>), Some(DocShort),
      Some(<<TextLine("d"), DocLine("doc", "!doc private", "private", "")>>),
      Some(<<DocLine("doc", "!doc protected: y", "protected", "y")>>) }

InitOptions ==
    /\ LsIdle
    /\ TreeIdle
    /\ MergeIdle
    /\ BasesIdle
    /\ IterIdle
    /\ \E description \in Descriptions, visibility \in {None, Some("private")},
          n \in 0 .. MaxTags :
          \E tags \in [1 .. n -> Tags] :
             fnArgs = SetCommon(NewObject("Data", FALSE), description, visibility, tags)
    /\ fnOut = None

\* the first read of parsed_options of the record: fnOut is the record with
\* its caches filled
ReadParsedOptions ==
    /\ fnOut = None
    /\ fnOut' = Some(AfterParse(fnArgs))
    /\ UNCHANGED fnArgs
    /\ UNCHANGED <<treeVars, mergeVars, basesVars, iterVars, lsVars>>

NextOptions == ReadParsedOptions

SpecOptions == InitOptions /\ [][NextOptions]_vars

\* the names the !doc lines of a docstring set
NamesOfDocLines(docstring) ==
    IF docstring = None THEN {}
    ELSE {Val(docstring)[i].name :
            i \in {j \in DOMAIN Val(docstring) : Val(docstring)[j].k = "doc"}}

\* C28: every entry of inferred_options is in parsed_options with the same
\* value unless a !doc line of the docstring sets the same name, for every
\* value of the docstring, the empty and the missing one included.
C28_InferredOptionsAreParsed ==
    fnOut # None =>
        \A i \in DOMAIN fnArgs.inferred_options :
            fnArgs.inferred_options[i].name \notin NamesOfDocLines(fnArgs.docstring)
                => fnArgs.inferred_options[i] \in Range(Val(Val(fnOut).parsed).options)

----------------------------------------------------------------------------
(* Claims about repeated builds *)

\* C29: once a call of run_lua_ls has rebuilt the tree, as long as no file is
\* written or removed and the project directories are not changed, every
\* following call of run_lua_ls finds the cache fresh: it returns without
\* running the language server and leaves the cache as it is.
C29_CacheStaysFresh ==
    [][(settled /\ outcome' # "idle") =>
          /\ outcome' = "returned"
          /\ \A d \in DOMAIN invocations' : invocations'[d] = 0
          /\ data' = data]_vars

\* a call has returned on the cache a call before it has built from two
\* project directories with their Lua files and the configuration file
C29_Witness ==
    /\ settled
    /\ outcome = "returned"
    /\ dirs = <<DirD1, DirD2>>
    /\ \A f \in DiskFiles : disk[f] # None

----------------------------------------------------------------------------
(* Claims about the option members *)

\* the candidates of the call that are no top-level globals and are
\* documented, public, without a double underscore name and not inherited
PlainCandidates(k) ==
    LET inherited_names == InheritedNames(root, fbCache, itArgs.parent)
        Hidden(o) == \/ o.visibility \in {Some("private"), Some("protected"), Some("package")}
                     \/ OptNames(Parsed(o).options)
                            \cap {"private", "protected", "package"} # {}
    IN {c \in Range(itResults[k].candidates) :
            LET o == Val(Find(root, c[2]))
            IN /\ ~o.is_toplevel
               /\ DocTruthy(Parsed(o).docstring)
               /\ ~Hidden(o)
               /\ ~StartsWith(c[1], <<"_", "_">>)
               /\ c[1] \notin inherited_names}

\* C30: a child that is no top-level global and is documented, public,
\* without a double underscore name and not inherited is yielded only if the
\* option members is True or a list of an including option holds its name;
\* with an empty option map no such child is yielded.
C30_PlainChildNeedsMembers ==
    \A k \in DOMAIN itResults :
        \A c \in PlainCandidates(k) :
            /\ c \in Range(itResults[k].items)
                  => (itArgs.options.members.all \/ c[1] \in Include(itArgs.options))
            /\ itArgs.options = NoOptions => c \notin Range(itResults[k].items)

\* a call without members as a flag, whose list of members names one of two
\* such children: the named one is yielded and the other one is not
C30_Witness ==
    \E k \in DOMAIN itResults :
        /\ ~itArgs.options.members.all
        /\ \E c, d \in PlainCandidates(k) :
              /\ c[1] \in Include(itArgs.options)
              /\ c \in Range(itResults[k].items)
              /\ d[1] \notin Include(itArgs.options)
              /\ d \notin Range(itResults[k].items)
              /\ d[1] \notin Exclude(itArgs.options)

====
